---- MODULE Spec2Model ----
(***************************************************************************)
(* mcpify: the extraction-expression evaluator (RequestEvaluator), the     *)
(* forwarding resolver (EvaluateHeaders) and the JSON-RPC protocol engine  *)
(* (Server.HandleRequest), modelled from the Go sources.                   *)
(*                                                                         *)
(* Text is modelled as a sequence of one-character strings so that the     *)
(* byte-level scanning of the Go code (bracket search, prefix tests,       *)
(* trimming, lower-casing, substring search) is computed and not assumed.  *)
(* Indices of the helpers are Go's: 0-based, -1 for "not found".           *)
(***************************************************************************)
EXTENDS Integers, Sequences, FiniteSets, TLC

(***************************************************************************)
(* Go string primitives.                                                   *)
(***************************************************************************)

\* s[i]
At(s, i) ==
    s[i + 1]

\* s[lo:hi]
Slice(s, lo, hi) ==
    SubSeq(s, lo + 1, hi)

\* s[lo:]
SliceFrom(s, lo) ==
    SubSeq(s, lo + 1, Len(s))

\* strings.HasPrefix
HasPrefix(s, p) ==
    Len(s) >= Len(p) /\ SubSeq(s, 1, Len(p)) = p

\* for i := start; i < len(s); i++ { if s[i] == c { return i } }; return -1
IndexByteFrom(s, c, start) ==
    LET hits == {i \in start..(Len(s) - 1) : s[i + 1] = c}
    IN  IF hits = {} THEN -1 ELSE CHOOSE i \in hits : \A j \in hits : i <= j

\* strings.Index
Index(s, sub) ==
    LET hits == {i \in 0..(Len(s) - Len(sub)) : SubSeq(s, i + 1, i + Len(sub)) = sub}
    IN  IF hits = {} THEN -1 ELSE CHOOSE i \in hits : \A j \in hits : i <= j

\* strings.Contains
Contains(s, sub) ==
    Index(s, sub) # -1

UpperCase ==
    <<"A", "B", "C", "D", "E", "F", "G", "H", "I", "J", "K", "L", "M",
      "N", "O", "P", "Q", "R", "S", "T", "U", "V", "W", "X", "Y", "Z">>

LowerCase ==
    <<"a", "b", "c", "d", "e", "f", "g", "h", "i", "j", "k", "l", "m",
      "n", "o", "p", "q", "r", "s", "t", "u", "v", "w", "x", "y", "z">>

LowerChar(c) ==
    IF \E i \in 1..26 : UpperCase[i] = c
    THEN LowerCase[CHOOSE i \in 1..26 : UpperCase[i] = c]
    ELSE c

\* strings.ToLower
ToLower(s) ==
    [i \in 1..Len(s) |-> LowerChar(s[i])]

\* strings.Trim(s, cutset): drop the leading and trailing characters of cutset
Trim(s, cutset) ==
    LET keep == {i \in 1..Len(s) : s[i] \notin cutset}
    IN  IF keep = {} THEN <<>>
        ELSE SubSeq(s, CHOOSE i \in keep : \A j \in keep : i <= j,
                       CHOOSE i \in keep : \A j \in keep : i >= j)

Digits ==
    <<"0", "1", "2", "3", "4", "5", "6", "7", "8", "9">>

IsDigit(c) ==
    \E i \in 1..10 : Digits[i] = c

DigitValue(c) ==
    (CHOOSE i \in 1..10 : Digits[i] = c) - 1

TextTrue ==
    <<"t", "r", "u", "e">>

TextFalse ==
    <<"f", "a", "l", "s", "e">>

TextNull ==
    <<"n", "u", "l", "l">>

(***************************************************************************)
(* encoding/json as the evaluator uses it: json.Unmarshal of a text into   *)
(* interface{} (ParseJSON) and json.Marshal of such a value (Marshal).     *)
(* Covered: objects, arrays, strings without escapes, integers, true,      *)
(* false, null, blanks between tokens.  Marshal writes the compact form    *)
(* with object keys in byte order, as Go does.                             *)
(***************************************************************************)

JNull ==
    [t |-> "null"]

JStr(s) ==
    [t |-> "string", s |-> s]

JNum(n) ==
    [t |-> "number", n |-> n]

JBool(b) ==
    [t |-> "bool", b |-> b]

JArr(e) ==
    [t |-> "array", e |-> e]

JObj(m) ==
    [t |-> "object", m |-> m]

EmptyMap ==
    [k \in {} |-> JNull]

ParseFail ==
    [ok |-> FALSE, v |-> JNull, pos |-> 0]

ParseOk(v, pos) ==
    [ok |-> TRUE, v |-> v, pos |-> pos]

\* the first index >= i that holds no blank (len(s) when there is none)
SkipWs(s, i) ==
    LET rest == {j \in i..(Len(s) - 1) : s[j + 1] # " "}
    IN  IF rest = {} THEN Len(s) ELSE CHOOSE j \in rest : \A k \in rest : j <= k

\* the end (exclusive) of the run of digits starting at i
DigitsEnd(s, i) ==
    LET stop == {j \in i..(Len(s) - 1) : ~IsDigit(s[j + 1])}
    IN  IF stop = {} THEN Len(s) ELSE CHOOSE j \in stop : \A k \in stop : j <= k

RECURSIVE Atoi(_)
Atoi(ds) ==
    IF ds = <<>> THEN 0
    ELSE 10 * Atoi(SubSeq(ds, 1, Len(ds) - 1)) + DigitValue(ds[Len(ds)])

RECURSIVE Itoa(_)
Itoa(n) ==
    IF n < 0 THEN <<"-">> \o Itoa(0 - n)
    ELSE IF n < 10 THEN <<Digits[n + 1]>>
    ELSE Itoa(n \div 10) \o <<Digits[(n % 10) + 1]>>

HasPrefixAt(s, i, p) ==
    HasPrefix(SliceFrom(s, i), p)

ParseString(s, i) ==
    LET close == IndexByteFrom(s, "\"", i + 1)
    IN  IF close = -1 THEN ParseFail
        ELSE ParseOk(JStr(Slice(s, i + 1, close)), close + 1)

ParseNumber(s, i) ==
    LET neg   == At(s, i) = "-"
        start == IF neg THEN i + 1 ELSE i
        stop  == DigitsEnd(s, start)
        mag   == Atoi(Slice(s, start, stop))
    IN  IF stop = start THEN ParseFail
        ELSE IF At(s, start) = "0" /\ stop > start + 1 THEN ParseFail
        ELSE ParseOk(JNum(IF neg THEN 0 - mag ELSE mag), stop)

RECURSIVE ParseValue(_, _)
RECURSIVE ParseMembers(_, _, _)
RECURSIVE ParseElements(_, _, _)

\* the members of an object from position i on, which is past "{" or ","
ParseMembers(s, i, m) ==
    LET ki == SkipWs(s, i)
    IN  IF ki >= Len(s) \/ At(s, ki) # "\"" THEN ParseFail
        ELSE
        LET key == ParseString(s, ki)
            ci  == SkipWs(s, key.pos)
        IN  IF ~key.ok \/ ci >= Len(s) \/ At(s, ci) # ":" THEN ParseFail
            ELSE
            LET val == ParseValue(s, ci + 1)
                ni  == SkipWs(s, val.pos)
                m2  == (key.v.s :> val.v) @@ m
            IN  IF ~val.ok \/ ni >= Len(s) THEN ParseFail
                ELSE IF At(s, ni) = "}" THEN ParseOk(JObj(m2), ni + 1)
                ELSE IF At(s, ni) = "," THEN ParseMembers(s, ni + 1, m2)
                ELSE ParseFail

\* the elements of an array from position i on, which is past "[" or ","
ParseElements(s, i, e) ==
    LET val == ParseValue(s, i)
        ni  == SkipWs(s, val.pos)
        e2  == Append(e, val.v)
    IN  IF ~val.ok \/ ni >= Len(s) THEN ParseFail
        ELSE IF At(s, ni) = "]" THEN ParseOk(JArr(e2), ni + 1)
        ELSE IF At(s, ni) = "," THEN ParseElements(s, ni + 1, e2)
        ELSE ParseFail

ParseValue(s, i) ==
    LET j == SkipWs(s, i)
    IN  IF j >= Len(s) THEN ParseFail
        ELSE
        LET c == At(s, j)
            n == SkipWs(s, j + 1)
        IN  IF c = "{"
              THEN IF n < Len(s) /\ At(s, n) = "}" THEN ParseOk(JObj(EmptyMap), n + 1)
                   ELSE ParseMembers(s, j + 1, EmptyMap)
            ELSE IF c = "["
              THEN IF n < Len(s) /\ At(s, n) = "]" THEN ParseOk(JArr(<<>>), n + 1)
                   ELSE ParseElements(s, j + 1, <<>>)
            ELSE IF c = "\"" THEN ParseString(s, j)
            ELSE IF c = "-" \/ IsDigit(c) THEN ParseNumber(s, j)
            ELSE IF HasPrefixAt(s, j, TextTrue) THEN ParseOk(JBool(TRUE), j + 4)
            ELSE IF HasPrefixAt(s, j, TextFalse) THEN ParseOk(JBool(FALSE), j + 5)
            ELSE IF HasPrefixAt(s, j, TextNull) THEN ParseOk(JNull, j + 4)
            ELSE ParseFail

\* json.Unmarshal([]byte(s), &v): the whole text is one value
ParseJSON(s) ==
    LET r == ParseValue(s, 0)
    IN  IF r.ok /\ SkipWs(s, r.pos) = Len(s) THEN r ELSE ParseFail

\* the characters of the model in byte order
ByteOrder ==
    <<" ", "\"", "$", "'", "-", ".", "/">> \o Digits \o <<":">> \o UpperCase
    \o <<"[", "]", "_">> \o LowerCase \o <<"{", "}">>

ByteOf(c) ==
    CHOOSE i \in 1..Len(ByteOrder) : ByteOrder[i] = c

RECURSIVE TextLess(_, _)
TextLess(a, b) ==
    IF a = <<>> THEN b # <<>>
    ELSE IF b = <<>> THEN FALSE
    ELSE IF a[1] = b[1] THEN TextLess(Tail(a), Tail(b))
    ELSE ByteOf(a[1]) < ByteOf(b[1])

MinText(S) ==
    CHOOSE a \in S : \A b \in S \ {a} : TextLess(a, b)

RECURSIVE Marshal(_)
RECURSIVE MarshalElements(_, _)
RECURSIVE MarshalMembers(_, _)

MarshalElements(e, i) ==
    IF i > Len(e) THEN <<>>
    ELSE (IF i > 1 THEN <<",">> ELSE <<>>) \o Marshal(e[i]) \o MarshalElements(e, i + 1)

MarshalMembers(m, keys) ==
    IF keys = {} THEN <<>>
    ELSE LET k == MinText(keys)
         IN  <<"\"">> \o k \o <<"\"", ":">> \o Marshal(m[k])
             \o (IF keys = {k} THEN <<>> ELSE <<",">>)
             \o MarshalMembers(m, keys \ {k})

\* json.Marshal(v)
Marshal(v) ==
    IF v.t = "null" THEN TextNull
    ELSE IF v.t = "string" THEN <<"\"">> \o v.s \o <<"\"">>
    ELSE IF v.t = "number" THEN Itoa(v.n)
    ELSE IF v.t = "bool" THEN (IF v.b THEN TextTrue ELSE TextFalse)
    ELSE IF v.t = "array" THEN <<"[">> \o MarshalElements(v.e, 1) \o <<"]">>
    ELSE <<"{">> \o MarshalMembers(v.m, DOMAIN v.m) \o <<"}">>

\* fmt.Errorf("unknown key %s", k)
MsgUnknownKey ==
    <<"u", "n", "k", "n", "o", "w", "n", " ", "k", "e", "y", " ">>

MsgNotFound ==
    <<"n", "o", "t", " ", "f", "o", "u", "n", "d">>

MsgIndex ==
    <<"i", "n", "d", "e", "x", " ">>

MsgOutOfBounds ==
    <<" ", "o", "u", "t", " ", "o", "f", " ", "b", "o", "u", "n", "d", "s">>

MsgInvalidKey ==
    <<"c", "o", "u", "l", "d", " ", "n", "o", "t", " ", "s", "e", "l", "e", "c", "t", " ", "v", "a", "l", "u", "e", ",", " ", "i", "n", "v", "a", "l", "i", "d", " ", "k", "e", "y">>

MsgUnsupportedType ==
    <<"u", "n", "s", "u", "p", "p", "o", "r", "t", "e", "d", " ", "v", "a", "l", "u", "e", " ", "t", "y", "p", "e", " ", "f", "o", "r", " ", "s", "e", "l", "e", "c", "t">>

MsgParsingError ==
    <<"p", "a", "r", "s", "i", "n", "g", " ", "e", "r", "r", "o", "r", ":", " ">>

(***************************************************************************)
(* github.com/PaesslerAG/jsonpath as the evaluator uses it: jsonpath.Get   *)
(* of a path "$" followed by .name, ["name"], ['name'] and [n] segments.   *)
(* A path that does not have this shape is a parsing error; this covers    *)
(* the unconverted expressions the model enumerates (an unbalanced bracket,*)
(* or no leading "$" together with an open bracket).  An error is its      *)
(* message text, NoError (the empty text) is Go's nil.                     *)
(***************************************************************************)

NoError ==
    <<>>

Got(v, err) ==
    [v |-> v, err |-> err]

IsIdentChar(c) ==
    \/ \E i \in 1..26 : LowerCase[i] = c \/ UpperCase[i] = c
    \/ IsDigit(c)
    \/ c = "_"

IdentEnd(s, i) ==
    LET stop == {j \in i..(Len(s) - 1) : ~IsIdentChar(s[j + 1])}
    IN  IF stop = {} THEN Len(s) ELSE CHOOSE j \in stop : \A k \in stop : j <= k

KeySegment(name) ==
    [index |-> FALSE, key |-> name, n |-> 0]

IndexSegment(n) ==
    [index |-> TRUE, key |-> Itoa(n), n |-> n]

PathFail ==
    [ok |-> FALSE, segs |-> <<>>]

RECURSIVE ParsePath(_, _, _)
ParsePath(p, i, segs) ==
    IF i >= Len(p) THEN [ok |-> TRUE, segs |-> segs]
    ELSE IF At(p, i) = "."
      THEN LET e == IdentEnd(p, i + 1)
           IN  IF e = i + 1 THEN PathFail
               ELSE ParsePath(p, e, Append(segs, KeySegment(Slice(p, i + 1, e))))
    ELSE IF At(p, i) = "["
      THEN IF i + 1 < Len(p) /\ At(p, i + 1) \in {"'", "\""}
           THEN LET q == IndexByteFrom(p, At(p, i + 1), i + 2)
                IN  IF q = -1 \/ q + 1 >= Len(p) \/ At(p, q + 1) # "]" THEN PathFail
                    ELSE ParsePath(p, q + 2, Append(segs, KeySegment(Slice(p, i + 2, q))))
           ELSE LET e == DigitsEnd(p, i + 1)
                IN  IF e = i + 1 \/ e >= Len(p) \/ At(p, e) # "]" THEN PathFail
                    ELSE ParsePath(p, e + 1, Append(segs, IndexSegment(Atoi(Slice(p, i + 1, e)))))
    ELSE PathFail

\* selectValue: one step of the descent
SelectValue(v, seg) ==
    IF v.t = "array"
      THEN IF ~seg.index THEN Got(JNull, MsgInvalidKey)
           ELSE IF seg.n < 0 \/ seg.n >= Len(v.e)
             THEN Got(JNull, MsgIndex \o Itoa(seg.n) \o MsgOutOfBounds)
           ELSE Got(v.e[seg.n + 1], NoError)
    ELSE IF v.t = "object"
      THEN IF seg.key \in DOMAIN v.m THEN Got(v.m[seg.key], NoError)
           ELSE Got(JNull, MsgUnknownKey \o seg.key)
    ELSE Got(JNull, MsgUnsupportedType)

RECURSIVE SelectPath(_, _, _)
SelectPath(v, segs, i) ==
    IF i > Len(segs) THEN Got(v, NoError)
    ELSE LET r == SelectValue(v, segs[i])
         IN  IF r.err # NoError THEN r ELSE SelectPath(r.v, segs, i + 1)

\* jsonpath.Get(path, data)
JsonpathGet(path, data) ==
    IF ~HasPrefix(path, <<"$">>) THEN Got(JNull, MsgParsingError \o path)
    ELSE LET parsed == ParsePath(path, 1, <<>>)
         IN  IF ~parsed.ok THEN Got(JNull, MsgParsingError \o path)
             ELSE SelectPath(data, parsed.segs, 1)

TextRequestDot ==
    <<"r", "e", "q", "u", "e", "s", "t", ".">>

TextHeadersOpen ==
    <<"h", "e", "a", "d", "e", "r", "s", "[">>

TextQueryOpen ==
    <<"q", "u", "e", "r", "y", "[">>

TextFormOpen ==
    <<"f", "o", "r", "m", "[">>

TextBodyDot ==
    <<"b", "o", "d", "y", ".">>

PathHeaders ==
    <<"$", ".", "h", "e", "a", "d", "e", "r", "s", "[", "\"">>

PathQuery ==
    <<"$", ".", "q", "u", "e", "r", "y", "[", "\"">>

PathForm ==
    <<"$", ".", "f", "o", "r", "m", "[", "\"">>

PathBody ==
    <<"$", ".", "b", "o", "d", "y", ".">>

PathClose ==
    <<"\"", "]">>

TextHeaders ==
    <<"h", "e", "a", "d", "e", "r", "s">>

TextQuery ==
    <<"q", "u", "e", "r", "y">>

TextForm ==
    <<"f", "o", "r", "m">>

TextBody ==
    <<"b", "o", "d", "y">>

TextMethod ==
    <<"m", "e", "t", "h", "o", "d">>

TextPath ==
    <<"p", "a", "t", "h">>

ErrfJSONPathExpression ==
    <<"f", "a", "i", "l", "e", "d", " ", "t", "o", " ", "e", "v", "a", "l", "u", "a", "t", "e", " ", "J", "S", "O", "N", "P", "a", "t", "h", " ", "e", "x", "p", "r", "e", "s", "s", "i", "o", "n", " ", "'">>

ErrfBasePath ==
    <<"f", "a", "i", "l", "e", "d", " ", "t", "o", " ", "e", "v", "a", "l", "u", "a", "t", "e", " ", "b", "a", "s", "e", " ", "p", "a", "t", "h", " ", "'">>

\* the end of a quoted %s and the separator before the wrapped error
QuoteColon ==
    <<"'", ":", " ">>

ErrfNestedJSONPath ==
    <<"f", "a", "i", "l", "e", "d", " ", "t", "o", " ", "e", "v", "a", "l", "u", "a", "t", "e", " ", "n", "e", "s", "t", "e", "d", " ", "J", "S", "O", "N", "P", "a", "t", "h", ":", " ">>

ErrfParseJSONString ==
    <<"f", "a", "i", "l", "e", "d", " ", "t", "o", " ", "p", "a", "r", "s", "e", " ", "J", "S", "O", "N", " ", "s", "t", "r", "i", "n", "g">>

ErrfEvaluateHeader ==
    <<"f", "a", "i", "l", "e", "d", " ", "t", "o", " ", "e", "v", "a", "l", "u", "a", "t", "e", " ", "h", "e", "a", "d", "e", "r", " ">>

(***************************************************************************)
(* RequestContext and RequestEvaluator.                                    *)
(***************************************************************************)

\* a (string, error) result
Ret(value, err) ==
    [value |-> value, err |-> err]

\* map[string]string as JSON: an object of strings
MapToJSON(m) ==
    JObj([k \in DOMAIN m |-> JStr(m[k])])

\* json.Marshal(requestContext) followed by json.Unmarshal into interface{}:
\* the maps become objects of strings, a nil Body (JNull) is omitted
\* (omitempty), RawData is never set and omitted as well.
ContextData(ctx) ==
    JObj((TextHeaders :> MapToJSON(ctx.headers))
         @@ (TextQuery :> MapToJSON(ctx.query))
         @@ (TextForm :> MapToJSON(ctx.form))
         @@ (TextMethod :> JStr(ctx.method))
         @@ (TextPath :> JStr(ctx.path))
         @@ (IF ctx.body = JNull THEN EmptyMap ELSE (TextBody :> ctx.body)))

\* NewRequestContextFromMap: header names are lower-cased, the rest copied.
\* Two names that differ in case only collide; Go's map iteration order
\* decides which value stays, so any of them may.
NewRequestContextFromMap(headers, query, form, method, path) ==
    {[headers |-> h, query |-> query, form |-> form, body |-> JNull,
      method |-> method, path |-> path] :
        h \in {g \in [{ToLower(n) : n \in DOMAIN headers} -> {headers[n] : n \in DOMAIN headers}] :
                 \A k \in DOMAIN g : \E n \in DOMAIN headers : ToLower(n) = k /\ headers[n] = g[k]}}

\* convertHeaderExpression without strings.ToLower(key): the key keeps the
\* case it has in the expression
convertHeaderExpressionKeepCase(expression) ==
    LET openBracket  == Index(expression, <<"[">>)
        closeBracket == IndexByteFrom(expression, "]", openBracket + 1)
        key          == Trim(Slice(expression, openBracket + 1, closeBracket), {"'", "\""})
        remaining    == SliceFrom(expression, closeBracket + 1)
        jsonPath     == PathHeaders \o key \o PathClose
    IN  IF openBracket = -1 THEN expression
        ELSE IF closeBracket = -1 THEN expression
        ELSE IF Len(remaining) > 0 /\ At(remaining, 0) = "." THEN jsonPath \o remaining
        ELSE jsonPath

convertHeaderExpression(expression) ==
    LET openBracket  == Index(expression, <<"[">>)
        closeBracket == IndexByteFrom(expression, "]", openBracket + 1)
        key          == Trim(Slice(expression, openBracket + 1, closeBracket), {"'", "\""})
        remaining    == SliceFrom(expression, closeBracket + 1)
        jsonPath     == PathHeaders \o ToLower(key) \o PathClose
    IN  IF openBracket = -1 THEN expression
        ELSE IF closeBracket = -1 THEN expression
        ELSE IF Len(remaining) > 0 /\ At(remaining, 0) = "." THEN jsonPath \o remaining
        ELSE jsonPath

convertQueryExpression(expression) ==
    LET openBracket  == Index(expression, <<"[">>)
        closeBracket == IndexByteFrom(expression, "]", openBracket + 1)
        key          == Trim(Slice(expression, openBracket + 1, closeBracket), {"'", "\""})
        remaining    == SliceFrom(expression, closeBracket + 1)
        jsonPath     == PathQuery \o key \o PathClose
    IN  IF openBracket = -1 THEN expression
        ELSE IF closeBracket = -1 THEN expression
        ELSE IF Len(remaining) > 0 /\ At(remaining, 0) = "." THEN jsonPath \o remaining
        ELSE jsonPath

convertFormExpression(expression) ==
    LET openBracket  == Index(expression, <<"[">>)
        closeBracket == IndexByteFrom(expression, "]", openBracket + 1)
        key          == Trim(Slice(expression, openBracket + 1, closeBracket), {"'", "\""})
        remaining    == SliceFrom(expression, closeBracket + 1)
        jsonPath     == PathForm \o key \o PathClose
    IN  IF openBracket = -1 THEN expression
        ELSE IF closeBracket = -1 THEN expression
        ELSE IF Len(remaining) > 0 /\ At(remaining, 0) = "." THEN jsonPath \o remaining
        ELSE jsonPath

convertBodyExpression(expression) ==
    PathBody \o SliceFrom(expression, 5)

convertExpressionToJSONPath(expression) ==
    LET e == IF Len(expression) > 8 /\ Slice(expression, 0, 8) = TextRequestDot
             THEN SliceFrom(expression, 8)
             ELSE expression
    IN  IF HasPrefix(e, TextHeadersOpen) THEN convertHeaderExpression(e)
        ELSE IF HasPrefix(e, TextQueryOpen) THEN convertQueryExpression(e)
        ELSE IF HasPrefix(e, TextFormOpen) THEN convertFormExpression(e)
        ELSE IF HasPrefix(e, TextBodyDot) THEN convertBodyExpression(e)
        ELSE e

isJSONString(s) ==
    ParseJSON(s).ok

\* extractNestedPath slicing from keyEnd+2: the nested path loses its
\* leading "."
extractNestedPathOffByOne(expression) ==
    LET keyEnd == IndexByteFrom(expression, "]", 0)
    IN  IF keyEnd # -1 /\ keyEnd + 1 < Len(expression)
        THEN SliceFrom(expression, keyEnd + 2)
        ELSE <<>>

extractNestedPath(expression) ==
    LET keyEnd == IndexByteFrom(expression, "]", 0)
    IN  IF keyEnd # -1 /\ keyEnd + 1 < Len(expression)
        THEN SliceFrom(expression, keyEnd + 1)
        ELSE <<>>

\* the switch without its string and nil cases: every value is marshalled
resultToStringMarshalAll(v) ==
    Marshal(v)

\* switch v := result.(type): string, nil, default json.Marshal
resultToString(v) ==
    IF v.t = "string" THEN v.s
    ELSE IF v.t = "null" THEN <<>>
    ELSE Marshal(v)

\* extractFromJSONString after jsonpath.Get("$" + nestedPath, jsonData)
\* returned got
nestedPathResult(got) ==
    IF got.err # NoError
      THEN IF Contains(got.err, MsgUnknownKey) THEN Ret(<<>>, NoError)
           ELSE Ret(<<>>, ErrfNestedJSONPath \o got.err)
    ELSE Ret(resultToString(got.v), NoError)

\* extractFromJSONString after json.Unmarshal returned parsed and
\* extractNestedPath returned nestedPath
extractFromParsed(jsonStr, parsed, nestedPath) ==
    IF ~parsed.ok THEN Ret(<<>>, ErrfParseJSONString)
    ELSE IF nestedPath = <<>> THEN Ret(jsonStr, NoError)
    ELSE nestedPathResult(JsonpathGet(<<"$">> \o nestedPath, parsed.v))

extractFromJSONString(jsonStr, originalExpression) ==
    extractFromParsed(jsonStr, ParseJSON(jsonStr), extractNestedPath(originalExpression))

hasNestedPath(expression) ==
    LET closeBracket == Index(expression, <<"]">>)
    IN  /\ closeBracket # -1
        /\ closeBracket + 1 < Len(expression)
        /\ At(expression, closeBracket + 1) = "."

extractBasePath(expression) ==
    LET closeBracket == Index(expression, <<"]">>)
    IN  IF closeBracket # -1
        THEN convertExpressionToJSONPath(Slice(expression, 0, closeBracket + 1))
        ELSE convertExpressionToJSONPath(expression)

\* evaluateNestedExpression without the isJSONString test: every string
\* base is handed to extractFromJSONString
baseResultAlwaysParse(expression, got) ==
    IF got.err # NoError
      THEN IF Contains(got.err, MsgUnknownKey) \/ Contains(got.err, MsgNotFound)
           THEN Ret(<<>>, NoError)
           ELSE Ret(<<>>, ErrfBasePath \o extractBasePath(expression) \o QuoteColon \o got.err)
    ELSE IF got.v.t = "string" THEN extractFromJSONString(got.v.s, expression)
    ELSE Ret(Marshal(got.v), NoError)

\* evaluateNestedExpression after jsonpath.Get(basePath, contextData)
\* returned got
baseResult(expression, got) ==
    IF got.err # NoError
      THEN IF Contains(got.err, MsgUnknownKey) \/ Contains(got.err, MsgNotFound)
           THEN Ret(<<>>, NoError)
           ELSE Ret(<<>>, ErrfBasePath \o extractBasePath(expression) \o QuoteColon \o got.err)
    ELSE IF got.v.t = "string" /\ isJSONString(got.v.s)
      THEN extractFromJSONString(got.v.s, expression)
    ELSE IF got.v.t = "string" THEN Ret(got.v.s, NoError)
    ELSE Ret(Marshal(got.v), NoError)

evaluateNestedExpression(expression, contextData) ==
    baseResult(expression, JsonpathGet(extractBasePath(expression), contextData))

\* evaluateValueFrom without the "unknown key" / "not found" test: every
\* jsonpath error is returned
plainResultStrict(expression, got) ==
    IF got.err # NoError
      THEN Ret(<<>>, ErrfJSONPathExpression \o expression \o QuoteColon \o got.err)
    ELSE Ret(resultToString(got.v), NoError)

\* evaluateValueFrom after jsonpath.Get(jsonPathExpr, contextData)
\* returned got
plainResult(expression, got) ==
    IF got.err # NoError
      THEN IF Contains(got.err, MsgUnknownKey) \/ Contains(got.err, MsgNotFound)
           THEN Ret(<<>>, NoError)
           ELSE Ret(<<>>, ErrfJSONPathExpression \o expression \o QuoteColon \o got.err)
    ELSE Ret(resultToString(got.v), NoError)

\* evaluateValueFrom with contextData, the context marshalled and
\* unmarshalled into a generic value
evaluateOnData(expression, contextData) ==
    IF hasNestedPath(expression) THEN evaluateNestedExpression(expression, contextData)
    ELSE plainResult(expression,
                     JsonpathGet(convertExpressionToJSONPath(expression), contextData))

evaluateValueFrom(expression, requestContext) ==
    evaluateOnData(expression, ContextData(requestContext))

\* one forwarding directive (HeaderConfig): name, value, valueFrom
Directive(name, value, valueFrom) ==
    [name |-> name, value |-> value, valueFrom |-> valueFrom]

\* the (map[string]string, error) result of EvaluateHeaders; evaluated lists
\* the positions of the directives evaluateValueFrom was called for
HeadersRet(result, isNil, err, evaluated) ==
    [result |-> result, isNil |-> isNil, err |-> err, evaluated |-> evaluated]

\* the loop of EvaluateHeaders from directive i on
RECURSIVE EvaluateHeadersFrom(_, _, _, _, _)

\* the ValueFrom branch returning the map built so far next to the error
ValueFromStepPartial(headers, requestContext, i, result, evaluated, r) ==
    IF r.err # NoError
      THEN HeadersRet(result, FALSE,
                      ErrfEvaluateHeader \o headers[i].name \o <<":", " ">> \o r.err,
                      evaluated)
    ELSE EvaluateHeadersFrom(headers, requestContext, i + 1,
                             IF r.value # <<>>
                             THEN (headers[i].name :> r.value) @@ result
                             ELSE result,
                             evaluated)

\* the ValueFrom branch of the loop body once evaluateValueFrom returned r
ValueFromStep(headers, requestContext, i, result, evaluated, r) ==
    IF r.err # NoError
      THEN HeadersRet(EmptyMap, TRUE,
                      ErrfEvaluateHeader \o headers[i].name \o <<":", " ">> \o r.err,
                      evaluated)
    ELSE EvaluateHeadersFrom(headers, requestContext, i + 1,
                             IF r.value # <<>>
                             THEN (headers[i].name :> r.value) @@ result
                             ELSE result,
                             evaluated)

EvaluateHeadersFrom(headers, requestContext, i, result, evaluated) ==
    IF i > Len(headers) THEN HeadersRet(result, FALSE, NoError, evaluated)
    ELSE IF headers[i].value # <<>>
      THEN EvaluateHeadersFrom(headers, requestContext, i + 1,
                               (headers[i].name :> headers[i].value) @@ result, evaluated)
    ELSE IF headers[i].valueFrom # <<>>
      THEN ValueFromStep(headers, requestContext, i, result, Append(evaluated, i),
                         evaluateValueFrom(headers[i].valueFrom, requestContext))
    ELSE EvaluateHeadersFrom(headers, requestContext, i + 1, result, evaluated)

EvaluateHeaders(headers, requestContext) ==
    EvaluateHeadersFrom(headers, requestContext, 1, EmptyMap, <<>>)

(***************************************************************************)
(* The inbound requests, expressions and directive lists of the model.      *)
(***************************************************************************)

NameXData ==
    <<"X", "-", "D", "a", "t", "a">>

KeyXData ==
    <<"x", "-", "d", "a", "t", "a">>

NameAuthorization ==
    <<"A", "u", "t", "h", "o", "r", "i", "z", "a", "t", "i", "o", "n">>

KeyAuthorization ==
    <<"a", "u", "t", "h", "o", "r", "i", "z", "a", "t", "i", "o", "n">>

NameAUTHORIZATION ==
    <<"A", "U", "T", "H", "O", "R", "I", "Z", "A", "T", "I", "O", "N">>

KeyMissing ==
    <<"m", "i", "s", "s", "i", "n", "g">>

KeyData ==
    <<"d", "a", "t", "a">>

KeyClientId ==
    <<"C", "l", "i", "e", "n", "t", "I", "d">>

KeyClientIdLower ==
    <<"c", "l", "i", "e", "n", "t", "i", "d">>

KeyToken ==
    <<"t", "o", "k", "e", "n">>

ValRoundTrip ==
    <<"{", "\"", "a", "p", "i", "k", "e", "y", "\"", ":", "\"", "s", "k",
      "-", "1", "2", "3", "4", "5", "6", "7", "8", "9", "0", "\"", ",", "\"",
      "a", "u", "t", "h", "\"", ":", "{", "\"", "a", "p", "i", "_", "k", "e",
      "y", "\"", ":", "\"", "k", "e", "y", "-", "a", "b", "c", "1", "2", "3",
      "\"", "}", "}">>

ValMixed ==
    <<"{", "\"", "c", "o", "u", "n", "t", "\"", ":", " ", "4", "2", ",", " ",
      "\"", "f", "l", "a", "g", "\"", ":", " ", "t", "r", "u", "e", ",", " ",
      "\"", "n", "\"", ":", " ", "n", "u", "l", "l", ",", " ", "\"", "e",
      "\"", ":", " ", "\"", "\"", ",", " ", "\"", "i", "t", "e", "m", "s",
      "\"", ":", " ", "[", "{", "\"", "n", "a", "m", "e", "\"", ":", " ",
      "\"", "f", "i", "r", "s", "t", "\"", "}", "]", "}">>

ValBearer ==
    <<"B", "e", "a", "r", "e", "r", " ", "t", "o", "k", "e", "n", "1", "2",
      "3">>

ValBroken ==
    <<"{", "\"", "k", "e", "y", "\"", ":", " ", "\"", "v", "a", "l", "u",
      "e", "\"">>

ValNumber ==
    <<"4", "2">>

ValArray ==
    <<"[", "\"", "a", "\"", ",", " ", "7", "]">>

ValQuoted ==
    <<"\"", "a", "b", "c", "\"">>

ValNullText ==
    <<"n", "u", "l", "l">>

ValClientUpper ==
    <<"c", "l", "i", "e", "n", "t", "-", "A">>

ValClientLower ==
    <<"c", "l", "i", "e", "n", "t", "-", "b">>

ValToken ==
    <<"f", "o", "r", "m", "-", "t", "o", "k", "e", "n", "-", "x", "y", "z">>

TextGET ==
    <<"G", "E", "T">>

TextApiTest ==
    <<"/", "a", "p", "i", "/", "t", "e", "s", "t">>

BodyText ==
    <<"{", "\"", "u", "s", "e", "r", "\"", ":", " ", "{", "\"", "i", "d",
      "\"", ":", " ", "7", ",", " ", "\"", "n", "a", "m", "e", "\"", ":",
      " ", "\"", "a", "n", "n", "\"", "}", ",", " ", "\"", "f", "l", "a",
      "g", "\"", ":", " ", "t", "r", "u", "e", ",", " ", "\"", "n", "\"",
      ":", " ", "n", "u", "l", "l", ",", " ", "\"", "i", "t", "e", "m", "s",
      "\"", ":", " ", "[", "{", "\"", "n", "a", "m", "e", "\"", ":", " ",
      "\"", "f", "i", "r", "s", "t", "\"", "}", ",", " ", "n", "u", "l", "l",
      "]", "}">>

NestedApikey ==
    <<".", "a", "p", "i", "k", "e", "y">>

NestedAuthApiKey ==
    <<".", "a", "u", "t", "h", ".", "a", "p", "i", "_", "k", "e", "y">>

NestedAuth ==
    <<".", "a", "u", "t", "h">>

NestedCount ==
    <<".", "c", "o", "u", "n", "t">>

NestedFlag ==
    <<".", "f", "l", "a", "g">>

NestedNull ==
    <<".", "n">>

NestedEmpty ==
    <<".", "e">>

NestedItemName ==
    <<".", "i", "t", "e", "m", "s", "[", "0", "]", ".", "n", "a", "m", "e">>

NestedItems ==
    <<".", "i", "t", "e", "m", "s">>

NestedMissing ==
    <<".", "m", "i", "s", "s", "i", "n", "g">>

NestedMissingDeeper ==
    <<".", "m", "i", "s", "s", "i", "n", "g", ".", "d", "e", "e", "p", "e",
      "r">>

NestedItemBeyond ==
    <<".", "i", "t", "e", "m", "s", "[", "5", "]">>

NestedBelowString ==
    <<".", "a", "p", "i", "k", "e", "y", ".", "d", "e", "e", "p", "e", "r">>

NestedUnbalanced ==
    <<".", "i", "n", "v", "a", "l", "i", "d", "[", "p", "a", "t", "h">>

ExprBodyUserId ==
    <<"r", "e", "q", "u", "e", "s", "t", ".", "b", "o", "d", "y", ".", "u",
      "s", "e", "r", ".", "i", "d">>

ExprBodyUserName ==
    <<"r", "e", "q", "u", "e", "s", "t", ".", "b", "o", "d", "y", ".", "u",
      "s", "e", "r", ".", "n", "a", "m", "e">>

ExprBodyUser ==
    <<"r", "e", "q", "u", "e", "s", "t", ".", "b", "o", "d", "y", ".", "u",
      "s", "e", "r">>

ExprBodyFlag ==
    <<"r", "e", "q", "u", "e", "s", "t", ".", "b", "o", "d", "y", ".", "f",
      "l", "a", "g">>

ExprBodyNull ==
    <<"r", "e", "q", "u", "e", "s", "t", ".", "b", "o", "d", "y", ".", "n">>

ExprBodyItems ==
    <<"r", "e", "q", "u", "e", "s", "t", ".", "b", "o", "d", "y", ".", "i",
      "t", "e", "m", "s">>

ExprBodyMissing ==
    <<"r", "e", "q", "u", "e", "s", "t", ".", "b", "o", "d", "y", ".", "m",
      "i", "s", "s", "i", "n", "g">>

ExprBodyNoPrefix ==
    <<"b", "o", "d", "y", ".", "u", "s", "e", "r", ".", "i", "d">>

ExprBodyItemName ==
    <<"r", "e", "q", "u", "e", "s", "t", ".", "b", "o", "d", "y", ".", "i",
      "t", "e", "m", "s", "[", "0", "]", ".", "n", "a", "m", "e">>

ExprBodyNullItem ==
    <<"r", "e", "q", "u", "e", "s", "t", ".", "b", "o", "d", "y", ".", "i",
      "t", "e", "m", "s", "[", "1", "]", ".", "n", "a", "m", "e">>

ExprUnbalanced ==
    <<"r", "e", "q", "u", "e", "s", "t", ".", "h", "e", "a", "d", "e", "r",
      "s", "[", "'", "x", "-", "d", "a", "t", "a", "'">>

ExprInvalid ==
    <<"i", "n", "v", "a", "l", "i", "d", ".", "j", "s", "o", "n", "p", "a",
      "t", "h", "[", "e", "x", "p", "r", "e", "s", "s", "i", "o", "n">>

ExprOpenOnly ==
    <<"h", "e", "a", "d", "e", "r", "s", "[">>

NameUserAgent ==
    <<"U", "s", "e", "r", "-", "A", "g", "e", "n", "t">>

ValUserAgent ==
    <<"M", "C", "P", "i", "f", "y", "/", "1", ".", "0", ".", "0">>

NameXMissing ==
    <<"X", "-", "M", "i", "s", "s", "i", "n", "g">>

NameXBad ==
    <<"X", "-", "B", "a", "d">>

NameXClient ==
    <<"X", "-", "C", "l", "i", "e", "n", "t">>

TextSk ==
    <<"s", "k", "-", "1", "2", "3", "4", "5", "6", "7", "8", "9", "0">>

TextKeyAbc ==
    <<"k", "e", "y", "-", "a", "b", "c", "1", "2", "3">>

\* the longest directive list the model resolves
MaxDirectives ==
    3

\* how often one call is repeated on the same context
MaxRepeat ==
    1

\* source[quote key quote] nested, with an optional "request." before it
BracketExpr(prefix, source, quote, key, nested) ==
    prefix \o source \o <<"[", quote>> \o key \o <<quote, "]">> \o nested

Prefixes ==
    {<<>>, TextRequestDot}

HeaderKeys ==
    {KeyXData, NameXData, KeyAuthorization, NameAuthorization, NameAUTHORIZATION, KeyMissing}

QueryKeys ==
    {KeyData, KeyClientId, KeyClientIdLower, KeyMissing}

FormKeys ==
    {KeyData, KeyToken, KeyMissing}

SourceKeys ==
    ({TextHeaders} \X HeaderKeys) \cup ({TextQuery} \X QueryKeys) \cup ({TextForm} \X FormKeys)

\* request.headers['k'], query['k'], ...: a plain lookup
PlainExprs ==
    {BracketExpr(p, sk[1], "'", sk[2], <<>>) : p \in Prefixes, sk \in SourceKeys}
    \cup {BracketExpr(TextRequestDot, TextHeaders, "\"", k, <<>>) : k \in HeaderKeys}

NestedPaths ==
    {NestedApikey, NestedAuthApiKey, NestedAuth, NestedCount, NestedFlag, NestedNull,
     NestedEmpty, NestedItemName, NestedItems, NestedMissing, NestedMissingDeeper,
     NestedItemBeyond, NestedBelowString, NestedUnbalanced}

\* the key under which each source carries the request's data value
DataKeys ==
    {<<TextHeaders, KeyXData>>, <<TextHeaders, NameXData>>,
     <<TextQuery, KeyData>>, <<TextForm, KeyData>>}

\* request.headers['x-data'].apikey, ...: a lookup with a nested path
NestedExprs ==
    {BracketExpr(TextRequestDot, sk[1], "'", sk[2], n) : sk \in DataKeys, n \in NestedPaths}
    \cup {BracketExpr(TextRequestDot, TextHeaders, "'", k, NestedApikey) :
            k \in {KeyAuthorization, KeyMissing}}
    \cup {BracketExpr(<<>>, TextQuery, "\"", KeyMissing, NestedApikey)}

BodyExprs ==
    {ExprBodyUserId, ExprBodyUserName, ExprBodyUser, ExprBodyFlag, ExprBodyNull,
     ExprBodyItems, ExprBodyMissing, ExprBodyNoPrefix, ExprBodyItemName, ExprBodyNullItem}

\* expressions the converter leaves as they are and jsonpath cannot parse
MalformedExprs ==
    {ExprUnbalanced, ExprInvalid, ExprOpenOnly}

Expressions ==
    PlainExprs \cup NestedExprs \cup BodyExprs \cup MalformedExprs

DirectivePool ==
    {Directive(NameUserAgent, ValUserAgent, <<>>),
     Directive(NameAuthorization, <<>>,
               BracketExpr(TextRequestDot, TextHeaders, "'", KeyXData, NestedApikey)),
     Directive(NameXMissing, <<>>,
               BracketExpr(TextRequestDot, TextHeaders, "'", KeyMissing, <<>>)),
     Directive(NameXClient, <<>>,
               BracketExpr(TextRequestDot, TextQuery, "'", KeyClientId, <<>>)),
     Directive(NameXBad, <<>>, ExprUnbalanced)}

\* the validated directive lists: one to MaxDirectives directives, names distinct
DirectiveLists ==
    {l \in UNION {[1..n -> DirectivePool] : n \in 1..MaxDirectives} :
        \A a, b \in 1..Len(l) : a # b => l[a].name # l[b].name}

DataValues ==
    {ValRoundTrip, ValMixed, ValBearer, ValBroken, <<>>, ValNumber, ValArray, ValQuoted,
     ValNullText}

\* an inbound request: one data value carried by a header (in either
\* spelling), a query parameter or a form field; the Authorization header in
\* some spelling; two query parameters that differ in case only
Request(data, place, auth, body) ==
    [headers |-> (IF place = NameXData \/ place = KeyXData
                  THEN (place :> data) ELSE EmptyMap) @@ (auth :> ValBearer),
     query   |-> (IF place = TextQuery THEN (KeyData :> data) ELSE EmptyMap)
                 @@ (KeyClientId :> ValClientUpper) @@ (KeyClientIdLower :> ValClientLower),
     form    |-> (IF place = TextForm THEN (KeyData :> data) ELSE EmptyMap)
                 @@ (KeyToken :> ValToken),
     body    |-> body]

DataPlaces ==
    {NameXData, KeyXData, TextQuery, TextForm}

AuthSpellings ==
    {NameAuthorization, KeyAuthorization, NameAUTHORIZATION}

\* every data value in every place; every spelling of Authorization; a
\* request without a body; a request whose map holds Authorization twice,
\* in two spellings
Requests ==
    {Request(data, place, NameAuthorization, ParseJSON(BodyText).v) :
        data \in DataValues, place \in DataPlaces}
    \cup {Request(ValRoundTrip, NameXData, auth, ParseJSON(BodyText).v) : auth \in AuthSpellings}
    \cup {Request(ValRoundTrip, NameXData, NameAuthorization, JNull)}
    \cup {[Request(ValRoundTrip, NameXData, NameAuthorization, JNull)
             EXCEPT !.headers = (KeyAuthorization :> ValToken) @@ @]}

NoRequest ==
    [headers |-> EmptyMap, query |-> EmptyMap, form |-> EmptyMap, body |-> JNull]

NoCall ==
    [op |-> "none", expression |-> <<>>, headers |-> <<>>, out |-> Ret(<<>>, NoError),
     repeats |-> 0]

(***************************************************************************)
(* State.                                                                  *)
(*   request        the inbound request being served (NoRequest: none)     *)
(*   requestContext the RequestContext built from it                       *)
(*   call           the evaluator call made last on that context, with     *)
(*                  its result; repeats counts its repetitions             *)
(*   tools, schemas the Server's registry: handler and schema per tool name *)
(*   phase          "startup" while tools are registered, then "serving"    *)
(*   rpc            the JSON-RPC request HandleRequest was called with last *)
(*   response       the response it returned                                *)
(*   invoked        the handler calls it made: handler, tool, arguments     *)
(*                  and what the handler returned                           *)
(*   consumed       the lines the stdio transport's scanner returned so far *)
(*   stdout         the responses the stdio transport wrote, in order       *)
(*   scanner        "open" while Scan can return a line, "eof" or "err"     *)
(*                  once it returned false                                  *)
(*   apiCall        the HandleAPICall in progress: configuration, tool,     *)
(*                  arguments and request context (NoAPICall: none)         *)
(*   outbound       the outbound *http.Request it prepared                  *)
(*   attempts       what each client.Do of its retry loop returned          *)
(*   apiLog         the warnings it logged                                  *)
(*   apiResult      what it returned (pending while it runs)                *)
(***************************************************************************)
VARIABLES request, requestContext, call, tools, schemas, phase, rpc, response, invoked,
          consumed, stdout, scanner, apiCall, outbound, attempts, apiLog, apiResult,
          configCall, httpConfig, sessions, clock, issued, tableLock, conns,
          mainPc, sigChan, delivered, ctxDone, startGoroutine, stopCalls, inFlight,
          grace

vars ==
    <<request, requestContext, call, tools, schemas, phase, rpc, response, invoked,
      consumed, stdout, scanner, apiCall, outbound, attempts, apiLog, apiResult,
      configCall, httpConfig, sessions, clock, issued, tableLock, conns,
      mainPc, sigChan, delivered, ctxDone, startGoroutine, stopCalls, inFlight,
      grace>>

evaluatorVars ==
    <<request, requestContext, call>>

serverVars ==
    <<tools, schemas, phase, rpc, response, invoked>>

transportVars ==
    <<consumed, stdout, scanner>>

handlerVars ==
    <<apiCall, outbound, attempts, apiLog, apiResult>>

configVars ==
    <<configCall>>

sessionVars ==
    <<httpConfig, sessions, clock, issued, tableLock, conns>>

\* startHTTPServerWithConfig: where it stands, its signal channel, the signals
\* the process was sent, its cancellable context, the goroutine that runs
\* Start, the calls of Stop, the requests being served and the seconds
\* of the shutdown deadline that have passed
mainVars ==
    <<mainPc, sigChan, delivered, ctxDone, startGoroutine, stopCalls, inFlight, grace>>

\* what the steps of the evaluator, of the protocol engine called directly,
\* and of the stdio transport leave alone
evaluatorFrame ==
    <<serverVars, transportVars, handlerVars, configVars, sessionVars, mainVars>>

serverFrame ==
    <<evaluatorVars, transportVars, handlerVars, configVars, sessionVars, mainVars>>

transportFrame ==
    <<evaluatorVars, handlerVars, configVars, sessionVars, mainVars>>

handlerFrame ==
    <<evaluatorVars, serverVars, transportVars, configVars, sessionVars, mainVars>>

configFrame ==
    <<evaluatorVars, serverVars, transportVars, handlerVars, sessionVars, mainVars>>

sessionFrame ==
    <<evaluatorVars, serverVars, transportVars, handlerVars, configVars, mainVars>>

mainFrame ==
    <<evaluatorVars, serverVars, transportVars, handlerVars, configVars>>

\* the connections the HTTP transport handles at the same time
Connections ==
    {"a", "b"}

\* the HTTP transport is not started
NoHTTPConfig ==
    [started |-> FALSE, sessionTimeout |-> 0, maxConnections |-> 0]

\* a connection without a request
IdleConn ==
    [pc |-> "idle", token |-> 0, wellFormed |-> TRUE, seen |-> 0, reply |-> "none"]

\* no call of the configuration package yet
NoConfigCall ==
    [op |-> "none"]

\* no HandleAPICall in progress
NoAPICall ==
    [active |-> FALSE]

\* HandleAPICall has not returned
PendingResult ==
    [pending |-> TRUE]

\* a nil *MCPError, a nil Result
Nil ==
    [nil |-> TRUE]

NoRpc ==
    [id |-> Nil, method |-> <<>>, params |-> <<>>]

NoResponse ==
    [jsonrpc |-> "", id |-> Nil, result |-> Nil, error |-> Nil]

EmptyContext ==
    [headers |-> EmptyMap, query |-> EmptyMap, form |-> EmptyMap, body |-> JNull,
     method |-> <<>>, path |-> <<>>]

\* no request yet; NewServer(): two empty maps
Init ==
    /\ request = NoRequest
    /\ requestContext = EmptyContext
    /\ call = NoCall
    /\ tools = EmptyMap
    /\ schemas = EmptyMap
    /\ phase = "startup"
    /\ rpc = NoRpc
    /\ response = NoResponse
    /\ invoked = <<>>
    /\ consumed = <<>>
    /\ stdout = <<>>
    /\ scanner = "open"
    /\ apiCall = NoAPICall
    /\ outbound = Nil
    /\ attempts = <<>>
    /\ apiLog = <<>>
    /\ apiResult = PendingResult
    /\ configCall = NoConfigCall
    /\ httpConfig = NoHTTPConfig
    /\ sessions = EmptyMap
    /\ clock = 0
    /\ issued = 0
    /\ tableLock = ""
    /\ conns = [c \in Connections |-> IdleConn]
    /\ mainPc = "idle"
    /\ sigChan = <<>>
    /\ delivered = 0
    /\ ctxDone = FALSE
    /\ startGoroutine = "none"
    /\ stopCalls = <<>>
    /\ inFlight = 0
    /\ grace = 0

\* a request arrives and its context is built, once
ReceiveRequest ==
    /\ request = NoRequest
    /\ \E r \in Requests :
         /\ request' = r
         /\ \E ctx \in NewRequestContextFromMap(r.headers, r.query, r.form, TextGET, TextApiTest) :
              requestContext' = [ctx EXCEPT !.body = r.body]
    /\ call' = NoCall
    /\ UNCHANGED evaluatorFrame

\* an evaluateValueFrom that consumes the headers it was given
CallEvaluateValueFromConsuming ==
    /\ request # NoRequest
    /\ call.op = "none"
    /\ \E e \in Expressions :
         call' = [op |-> "evaluateValueFrom", expression |-> e, headers |-> <<>>,
                  out |-> evaluateValueFrom(e, requestContext), repeats |-> 0]
    /\ requestContext' = [requestContext EXCEPT !.headers = EmptyMap]
    /\ UNCHANGED <<request, evaluatorFrame>>

\* evaluateValueFrom(expression, requestContext)
CallEvaluateValueFrom ==
    /\ request # NoRequest
    /\ call.op = "none"
    /\ \E e \in Expressions :
         call' = [op |-> "evaluateValueFrom", expression |-> e, headers |-> <<>>,
                  out |-> evaluateValueFrom(e, requestContext), repeats |-> 0]
    /\ UNCHANGED <<request, requestContext, evaluatorFrame>>

\* EvaluateHeaders(headers, requestContext)
CallEvaluateHeaders ==
    /\ request # NoRequest
    /\ call.op = "none"
    /\ \E l \in DirectiveLists :
         call' = [op |-> "EvaluateHeaders", expression |-> <<>>, headers |-> l,
                  out |-> EvaluateHeaders(l, requestContext), repeats |-> 0]
    /\ UNCHANGED <<request, requestContext, evaluatorFrame>>

\* the same call once more on the same context
RepeatCall ==
    /\ call.op # "none"
    /\ call.repeats < MaxRepeat
    /\ call' = [call EXCEPT
                  !.out = IF call.op = "evaluateValueFrom"
                          THEN evaluateValueFrom(call.expression, requestContext)
                          ELSE EvaluateHeaders(call.headers, requestContext),
                  !.repeats = call.repeats + 1]
    /\ UNCHANGED <<request, requestContext, evaluatorFrame>>

\* the caller takes the result
ReturnCall ==
    /\ call.op # "none"
    /\ call' = NoCall
    /\ UNCHANGED <<request, requestContext, evaluatorFrame>>

\* the request is answered; its context is dropped
FinishRequest ==
    /\ request # NoRequest
    /\ call.op = "none"
    /\ request' = NoRequest
    /\ requestContext' = EmptyContext
    /\ UNCHANGED <<call, evaluatorFrame>>

Next ==
    \/ ReceiveRequest
    \/ CallEvaluateValueFrom
    \/ CallEvaluateHeaders
    \/ RepeatCall
    \/ ReturnCall
    \/ FinishRequest

Spec ==
    Init /\ [][Next]_vars

(***************************************************************************)
(* Properties of the evaluator and the resolver.                           *)
(***************************************************************************)

Quotes ==
    {"'", "\""}

\* the context map a source name addresses
AddressedMap(source, ctx) ==
    IF source = TextHeaders THEN ctx.headers
    ELSE IF source = TextQuery THEN ctx.query
    ELSE ctx.form

\* the key under which a lookup of key in that source finds its value
AddressedKey(source, key) ==
    IF source = TextHeaders THEN ToLower(key) ELSE key

IsPresent(source, key, ctx) ==
    AddressedKey(source, key) \in DOMAIN AddressedMap(source, ctx)

\* the value the lookup addresses (the key is present)
BaseValue(source, key, ctx) ==
    AddressedMap(source, ctx)[AddressedKey(source, key)]

\* expression is a lookup, plain or nested, of a key its source does not hold
IsAbsentLookup(expression, ctx) ==
    \E sk \in {x \in SourceKeys : ~IsPresent(x[1], x[2], ctx)} :
        \E p \in Prefixes, q \in Quotes, n \in {<<>>} \cup NestedPaths :
            expression = BracketExpr(p, sk[1], q, sk[2], n)

\* the positions of the expression-valued directives of l whose evaluation
\* on ctx returns an error
FailingDirectives(l, ctx) ==
    {i \in 1..Len(l) : /\ l[i].value = <<>>
                       /\ l[i].valueFrom # <<>>
                       /\ evaluateValueFrom(l[i].valueFrom, ctx).err # NoError}

FirstOf(S) ==
    CHOOSE i \in S : \A j \in S : i <= j

IsEvaluateValueFrom ==
    call.op = "evaluateValueFrom"

IsEvaluateHeaders ==
    call.op = "EvaluateHeaders"

C2_NotFoundSilent ==
    /\ IsEvaluateValueFrom /\ IsAbsentLookup(call.expression, requestContext)
       => call.out = Ret(<<>>, NoError)
    /\ IsEvaluateHeaders /\ FailingDirectives(call.headers, requestContext) = {}
       => /\ call.out.err = NoError
          /\ ~call.out.isNil
          /\ \A i \in 1..Len(call.headers) :
               IF call.headers[i].value # <<>>
                 THEN /\ call.headers[i].name \in DOMAIN call.out.result
                      /\ call.out.result[call.headers[i].name] = call.headers[i].value
               ELSE IF IsAbsentLookup(call.headers[i].valueFrom, requestContext)
                 THEN call.headers[i].name \notin DOMAIN call.out.result
               ELSE evaluateValueFrom(call.headers[i].valueFrom, requestContext).value # <<>>
                    => /\ call.headers[i].name \in DOMAIN call.out.result
                       /\ call.out.result[call.headers[i].name]
                            = evaluateValueFrom(call.headers[i].valueFrom, requestContext).value

\* a batch of a literal, a lookup of a missing header and a query lookup:
\* resolved without error, the missing one omitted, the others present
C2_Witness ==
    /\ IsEvaluateHeaders
    /\ Len(call.headers) = 3
    /\ call.headers[1].name = NameXMissing
    /\ call.out.err = NoError
    /\ ~call.out.isNil
    /\ DOMAIN call.out.result = {NameUserAgent, NameXClient}
    /\ call.out.result[NameXClient] = ValClientUpper

\* the directive that maps Authorization from the apikey field of X-Data
AuthorizationFromApikey ==
    Directive(NameAuthorization, <<>>,
              BracketExpr(TextRequestDot, TextHeaders, "'", KeyXData, NestedApikey))

\* C3: when the header, query parameter or form field addressed by the
\* expression holds the text {"apikey":"sk-1234567890","auth":{"api_key":
\* "key-abc123"}}, the nested path .apikey gives sk-1234567890 and the nested
\* path .auth.api_key gives key-abc123; the directive that maps
\* Authorization from .apikey resolves to Authorization: sk-1234567890, and
\* alone to exactly that map.
C3_NestedExtraction ==
    /\ IsEvaluateValueFrom
       => \A sk \in DataKeys, p \in Prefixes, q \in Quotes :
            IsPresent(sk[1], sk[2], requestContext)
            /\ BaseValue(sk[1], sk[2], requestContext) = ValRoundTrip
            => /\ call.expression = BracketExpr(p, sk[1], q, sk[2], NestedApikey)
                  => call.out = Ret(TextSk, NoError)
               /\ call.expression = BracketExpr(p, sk[1], q, sk[2], NestedAuthApiKey)
                  => call.out = Ret(TextKeyAbc, NoError)
    /\ IsEvaluateHeaders
       /\ IsPresent(TextHeaders, KeyXData, requestContext)
       /\ BaseValue(TextHeaders, KeyXData, requestContext) = ValRoundTrip
       /\ FailingDirectives(call.headers, requestContext) = {}
       /\ (\E i \in 1..Len(call.headers) : call.headers[i] = AuthorizationFromApikey)
       => /\ NameAuthorization \in DOMAIN call.out.result
          /\ call.out.result[NameAuthorization] = TextSk
          /\ Len(call.headers) = 1 => call.out.result = (NameAuthorization :> TextSk)

\* the two-level path on a form field that carries the object
C3_Witness ==
    /\ IsEvaluateValueFrom
    /\ call.expression
         = BracketExpr(TextRequestDot, TextForm, "'", KeyData, NestedAuthApiKey)
    /\ IsPresent(TextForm, KeyData, requestContext)
    /\ BaseValue(TextForm, KeyData, requestContext) = ValRoundTrip
    /\ call.out = Ret(TextKeyAbc, NoError)

\* C4: a plain headers lookup returns the value of the header whose name
\* equals the expression's key up to letter case, in whatever case the header
\* arrived and the key is written; a plain query or form lookup returns the
\* value stored under exactly the key written, so that ClientId and clientid
\* address distinct parameters.
C4_CaseHandling ==
    IsEvaluateValueFrom
    => \A p \in Prefixes, q \in Quotes :
         /\ \A k \in HeaderKeys :
              call.expression = BracketExpr(p, TextHeaders, q, k, <<>>)
              => /\ call.out.err = NoError
                 /\ call.out.value
                      = (IF ToLower(k) \in DOMAIN requestContext.headers
                         THEN requestContext.headers[ToLower(k)] ELSE <<>>)
                 /\ call.out.value
                      \in (IF \E n \in DOMAIN request.headers : ToLower(n) = ToLower(k)
                           THEN {request.headers[n] :
                                   n \in {m \in DOMAIN request.headers : ToLower(m) = ToLower(k)}}
                           ELSE {<<>>})
         /\ \A k \in QueryKeys :
              call.expression = BracketExpr(p, TextQuery, q, k, <<>>)
              => call.out = Ret(IF k \in DOMAIN request.query
                                THEN request.query[k] ELSE <<>>, NoError)
         /\ \A k \in FormKeys :
              call.expression = BracketExpr(p, TextForm, q, k, <<>>)
              => call.out = Ret(IF k \in DOMAIN request.form
                                THEN request.form[k] ELSE <<>>, NoError)

\* the header arrived as "authorization", the expression asks for
\* "AUTHORIZATION", and the value is found
C4_Witness ==
    /\ IsEvaluateValueFrom
    /\ call.expression = BracketExpr(TextRequestDot, TextHeaders, "'", NameAUTHORIZATION, <<>>)
    /\ DOMAIN request.headers = {NameXData, KeyAuthorization}
    /\ call.out = Ret(ValBearer, NoError)

\* the two query parameters that differ in case only give their own values
C4_WitnessQuery ==
    /\ IsEvaluateValueFrom
    /\ call.expression = BracketExpr(TextRequestDot, TextQuery, "'", KeyClientIdLower, <<>>)
    /\ call.out = Ret(ValClientLower, NoError)
    /\ request.query[KeyClientId] = ValClientUpper

\* call is the evaluation of a nested lookup of a data key whose value base
\* the request carries
IsNestedLookupOf(base) ==
    /\ IsEvaluateValueFrom
    /\ \E sk \in DataKeys, n \in NestedPaths :
         /\ call.expression = BracketExpr(TextRequestDot, sk[1], "'", sk[2], n)
         /\ IsPresent(sk[1], sk[2], requestContext)
         /\ BaseValue(sk[1], sk[2], requestContext) = base

\* call resolves AuthorizationFromApikey, alone or with directives that do
\* not fail, on a context whose X-Data header holds base
IsAuthorizationFrom(base) ==
    /\ IsEvaluateHeaders
    /\ \E i \in 1..Len(call.headers) : call.headers[i] = AuthorizationFromApikey
    /\ FailingDirectives(call.headers, requestContext) = {}
    /\ IsPresent(TextHeaders, KeyXData, requestContext)
    /\ BaseValue(TextHeaders, KeyXData, requestContext) = base

NestedPathOf(expression) ==
    CHOOSE n \in NestedPaths :
        \E sk \in DataKeys : expression = BracketExpr(TextRequestDot, sk[1], "'", sk[2], n)

\* a prefix of the well-formed path n is missing inside the JSON value v:
\* the descent along n stops at a field, an index or a value that is not there
MissingPrefix(n, v) ==
    /\ ParsePath(<<"$">> \o n, 1, <<>>).ok
    /\ SelectPath(v, ParsePath(<<"$">> \o n, 1, <<>>).segs, 1).err # NoError

\* C6 (as stated): for every base value that parses as JSON (object, array
\* or scalar) and every nested path of which a prefix is missing inside the
\* parsed value, evaluation returns the empty string and no error.
C6_MissingPrefixSilent ==
    \A base \in {v \in DataValues : ParseJSON(v).ok} :
        IsNestedLookupOf(base)
        /\ MissingPrefix(NestedPathOf(call.expression), ParseJSON(base).v)
        => call.out = Ret(<<>>, NoError)

\* the part of C6 the code keeps: a field missing from an object
C6_MissingFieldSilent ==
    \A base \in {v \in DataValues : ParseJSON(v).ok} :
        IsNestedLookupOf(base)
        /\ NestedPathOf(call.expression) \in {NestedMissing, NestedMissingDeeper}
        /\ ParseJSON(base).v.t = "object"
        => call.out = Ret(<<>>, NoError)

\* the index beyond the end of the array items: an error, not ""
C6_Witness ==
    /\ IsNestedLookupOf(ValMixed)
    /\ NestedPathOf(call.expression) = NestedItemBeyond
    /\ call.out.err # NoError

TextSeven ==
    <<"7">>

TextUserObject ==
    <<"{", "\"", "i", "d", "\"", ":", "7", ",", "\"", "n", "a", "m", "e",
      "\"", ":", "\"", "a", "n", "n", "\"", "}">>

TextBodyItems ==
    <<"[", "{", "\"", "n", "a", "m", "e", "\"", ":", "\"", "f", "i", "r",
      "s", "t", "\"", "}", ",", "n", "u", "l", "l", "]">>

TextMixedItems ==
    <<"[", "{", "\"", "n", "a", "m", "e", "\"", ":", "\"", "f", "i", "r",
      "s", "t", "\"", "}", "]">>

TextFirstItem ==
    <<"{", "\"", "n", "a", "m", "e", "\"", ":", "\"", "f", "i", "r", "s",
      "t", "\"", "}">>

TextFirst ==
    <<"f", "i", "r", "s", "t">>

\* the coercion of a resolved value: a string verbatim, null as the empty
\* string, anything else as its compact JSON text
Coerced(v) ==
    IF v.t = "string" THEN v.s
    ELSE IF v.t = "null" THEN <<>>
    ELSE Marshal(v)

\* the value a plain lookup resolves
ResolvedPlain ==
    JsonpathGet(convertExpressionToJSONPath(call.expression), ContextData(requestContext))

\* the base value a nested lookup resolves
ResolvedBase ==
    JsonpathGet(extractBasePath(call.expression), ContextData(requestContext))

\* the value the descent along nested path n inside the JSON text base resolves
ResolvedDescent(base, n) ==
    JsonpathGet(<<"$">> \o n, ParseJSON(base).v)

\* expression evaluates to expected
Gives(expression, expected) ==
    call.expression = expression => call.out = Ret(expected, NoError)

\* the coercion on the three evaluation paths, a null base of a nested
\* lookup giving nullBase
CoercionWith(nullBase) ==
    IsEvaluateValueFrom
    => /\ ~hasNestedPath(call.expression) /\ ResolvedPlain.err = NoError
          => call.out = Ret(Coerced(ResolvedPlain.v), NoError)
       /\ hasNestedPath(call.expression) /\ ResolvedBase.err = NoError
          /\ ResolvedBase.v.t # "string"
          => call.out = Ret(IF ResolvedBase.v.t = "null" THEN nullBase
                            ELSE Coerced(ResolvedBase.v), NoError)
       /\ \A base \in {v \in DataValues : ParseJSON(v).ok} :
            IsNestedLookupOf(base)
            /\ ResolvedDescent(base, NestedPathOf(call.expression)).err = NoError
            => call.out = Ret(Coerced(ResolvedDescent(base, NestedPathOf(call.expression)).v),
                              NoError)
       /\ requestContext.body # JNull
          => /\ Gives(ExprBodyUserId, TextSeven)
             /\ Gives(ExprBodyFlag, TextTrue)
             /\ Gives(ExprBodyNull, <<>>)
             /\ Gives(ExprBodyMissing, <<>>)
             /\ Gives(ExprBodyUserName, <<"a", "n", "n">>)
             /\ Gives(ExprBodyUser, TextUserObject)
             /\ Gives(ExprBodyItems, TextBodyItems)
             /\ Gives(ExprBodyItemName, TextFirstItem)
             /\ Gives(ExprBodyNullItem, nullBase)
       /\ IsNestedLookupOf(ValMixed)
          => /\ NestedPathOf(call.expression) = NestedCount => call.out = Ret(ValNumber, NoError)
             /\ NestedPathOf(call.expression) = NestedFlag => call.out = Ret(TextTrue, NoError)
             /\ NestedPathOf(call.expression) = NestedNull => call.out = Ret(<<>>, NoError)
             /\ NestedPathOf(call.expression) = NestedEmpty => call.out = Ret(<<>>, NoError)
             /\ NestedPathOf(call.expression) = NestedItems
                => call.out = Ret(TextMixedItems, NoError)
             /\ NestedPathOf(call.expression) = NestedItemName
                => call.out = Ret(TextFirst, NoError)

C7_WitnessNullBase ==
    /\ IsEvaluateValueFrom
    /\ call.expression = ExprBodyNullItem
    /\ requestContext.body # JNull
    /\ call.out = Ret(TextNull, NoError)

ErrorCodeMethodNotFound ==
    -32601

ErrorCodeInvalidParams ==
    -32602

ErrorCodeToolNotFound ==
    -1302

ErrorCodeToolExecutionFailed ==
    -4000

ErrorCodeToolNetworkError ==
    -4001

ErrorCodeToolTimeoutError ==
    -4002

ErrorCodeToolAuthenticationError ==
    -4003

ErrorCodeToolValidationError ==
    -4004

ErrorCodeToolSerializationError ==
    -4005

ErrorCodeToolParameterError ==
    -4006

\* the substrings categorizeToolError looks for
Pattern ==
    [timeout |-> <<"t", "i", "m", "e", "o", "u", "t">>,
     deadline |-> <<"d", "e", "a", "d", "l", "i", "n", "e", " ", "e", "x", "c", "e", "e", "d", "e", "d">>,
     refused |-> <<"c", "o", "n", "n", "e", "c", "t", "i", "o", "n", " ", "r", "e", "f", "u", "s", "e", "d">>,
     noHost |-> <<"n", "o", " ", "s", "u", "c", "h", " ", "h", "o", "s", "t">>,
     unreachable |-> <<"n", "e", "t", "w", "o", "r", "k", " ", "i", "s", " ", "u", "n", "r", "e", "a", "c", "h", "a", "b", "l", "e">>,
     reset |-> <<"c", "o", "n", "n", "e", "c", "t", "i", "o", "n", " ", "r", "e", "s", "e", "t">>,
     unauthorized |-> <<"u", "n", "a", "u", "t", "h", "o", "r", "i", "z", "e", "d">>,
     authFailed |-> <<"a", "u", "t", "h", "e", "n", "t", "i", "c", "a", "t", "i", "o", "n", " ", "f", "a", "i", "l", "e", "d">>,
     credentials |-> <<"i", "n", "v", "a", "l", "i", "d", " ", "c", "r", "e", "d", "e", "n", "t", "i", "a", "l", "s">>,
     expired |-> <<"t", "o", "k", "e", "n", " ", "e", "x", "p", "i", "r", "e", "d">>,
     forbidden |-> <<"f", "o", "r", "b", "i", "d", "d", "e", "n">>,
     denied |-> <<"a", "c", "c", "e", "s", "s", " ", "d", "e", "n", "i", "e", "d">>,
     required |-> <<"r", "e", "q", "u", "i", "r", "e", "d">>,
     notProvided |-> <<"n", "o", "t", " ", "p", "r", "o", "v", "i", "d", "e", "d">>,
     invalidParameter |-> <<"i", "n", "v", "a", "l", "i", "d", " ", "p", "a", "r", "a", "m", "e", "t", "e", "r">>,
     validationFailed |-> <<"v", "a", "l", "i", "d", "a", "t", "i", "o", "n", " ", "f", "a", "i", "l", "e", "d">>,
     invalidFormat |-> <<"i", "n", "v", "a", "l", "i", "d", " ", "f", "o", "r", "m", "a", "t">>,
     missingField |-> <<"m", "i", "s", "s", "i", "n", "g", " ", "r", "e", "q", "u", "i", "r", "e", "d", " ", "f", "i", "e", "l", "d">>,
     marshal |-> <<"m", "a", "r", "s", "h", "a", "l">>,
     unmarshal |-> <<"u", "n", "m", "a", "r", "s", "h", "a", "l">>,
     json |-> <<"j", "s", "o", "n">>,
     serialization |-> <<"s", "e", "r", "i", "a", "l", "i", "z", "a", "t", "i", "o", "n">>,
     status400 |-> <<"s", "t", "a", "t", "u", "s", " ", "4", "0", "0">>,
     badRequest |-> <<"b", "a", "d", " ", "r", "e", "q", "u", "e", "s", "t">>,
     status401 |-> <<"s", "t", "a", "t", "u", "s", " ", "4", "0", "1">>,
     status403 |-> <<"s", "t", "a", "t", "u", "s", " ", "4", "0", "3">>,
     status404 |-> <<"s", "t", "a", "t", "u", "s", " ", "4", "0", "4">>,
     status422 |-> <<"s", "t", "a", "t", "u", "s", " ", "4", "2", "2">>,
     status429 |-> <<"s", "t", "a", "t", "u", "s", " ", "4", "2", "9">>,
     status5 |-> <<"s", "t", "a", "t", "u", "s", " ", "5">>]

\* an (int, string) result
Category(code, message) ==
    [code |-> code, message |-> message]

\* categorizeToolError from errLower := strings.ToLower(err.Error()) on
categorizeLower(errLower) ==
    IF Contains(errLower, Pattern.timeout) \/ Contains(errLower, Pattern.deadline)
      THEN Category(ErrorCodeToolTimeoutError, "Tool execution timed out")
    ELSE IF \/ Contains(errLower, Pattern.refused) \/ Contains(errLower, Pattern.noHost)
            \/ Contains(errLower, Pattern.unreachable) \/ Contains(errLower, Pattern.reset)
      THEN Category(ErrorCodeToolNetworkError, "Network error during tool execution")
    ELSE IF \/ Contains(errLower, Pattern.unauthorized) \/ Contains(errLower, Pattern.authFailed)
            \/ Contains(errLower, Pattern.credentials) \/ Contains(errLower, Pattern.expired)
            \/ Contains(errLower, Pattern.forbidden) \/ Contains(errLower, Pattern.denied)
      THEN Category(ErrorCodeToolAuthenticationError,
                    "Authentication failed during tool execution")
    ELSE IF \/ (Contains(errLower, Pattern.required) /\ Contains(errLower, Pattern.notProvided))
            \/ Contains(errLower, Pattern.invalidParameter)
            \/ Contains(errLower, Pattern.validationFailed)
            \/ Contains(errLower, Pattern.invalidFormat)
            \/ Contains(errLower, Pattern.missingField)
      THEN Category(ErrorCodeToolParameterError,
                    "Invalid or missing parameters for tool execution")
    ELSE IF \/ Contains(errLower, Pattern.marshal) \/ Contains(errLower, Pattern.unmarshal)
            \/ Contains(errLower, Pattern.json) \/ Contains(errLower, Pattern.serialization)
      THEN Category(ErrorCodeToolSerializationError,
                    "Data serialization error during tool execution")
    ELSE IF Contains(errLower, Pattern.status400) \/ Contains(errLower, Pattern.badRequest)
      THEN Category(ErrorCodeToolValidationError, "Invalid request parameters")
    ELSE IF Contains(errLower, Pattern.status401)
      THEN Category(ErrorCodeToolAuthenticationError, "Authentication required")
    ELSE IF Contains(errLower, Pattern.status403)
      THEN Category(ErrorCodeToolAuthenticationError, "Access forbidden")
    ELSE IF Contains(errLower, Pattern.status404)
      THEN Category(ErrorCodeToolValidationError, "Resource not found")
    ELSE IF Contains(errLower, Pattern.status422)
      THEN Category(ErrorCodeToolValidationError, "Request validation failed")
    ELSE IF Contains(errLower, Pattern.status429)
      THEN Category(ErrorCodeToolValidationError, "Rate limit exceeded")
    ELSE IF Contains(errLower, Pattern.status5)
      THEN Category(ErrorCodeToolExecutionFailed, "Server error during tool execution")
    ELSE Category(ErrorCodeToolExecutionFailed, "Tool execution failed")

\* categorizeToolError comparing the text as written
categorizeToolErrorAsWritten(err) ==
    IF err = NoError THEN Category(0, "") ELSE categorizeLower(err)

\* categorizeToolError(err); a nil error is NoError
categorizeToolError(err) ==
    IF err = NoError THEN Category(0, "") ELSE categorizeLower(ToLower(err))

TextName ==
    <<"n", "a", "m", "e">>

TextArguments ==
    <<"a", "r", "g", "u", "m", "e", "n", "t", "s">>

\* the text of the error json.Unmarshal returns for params it cannot decode
MsgUnmarshal ==
    <<"j", "s", "o", "n", ":", " ", "c", "a", "n", "n", "o", "t", " ", "u",
      "n", "m", "a", "r", "s", "h", "a", "l", " ", "p", "a", "r", "a", "m",
      "s">>

\* a CallToolParams, or the failure to decode one
CallToolParams(ok, name, arguments) ==
    [ok |-> ok, name |-> name, arguments |-> arguments]

\* json.Unmarshal of a JSON object into CallToolParams: name takes a string,
\* arguments an object, each is left at its zero value by null or when the
\* object does not have it; any other kind of value is an error
UnmarshalObject(m) ==
    IF TextName \in DOMAIN m /\ m[TextName].t \notin {"string", "null"}
      THEN CallToolParams(FALSE, <<>>, JNull)
    ELSE IF TextArguments \in DOMAIN m /\ m[TextArguments].t \notin {"object", "null"}
      THEN CallToolParams(FALSE, <<>>, JNull)
    ELSE CallToolParams(TRUE,
                        IF TextName \in DOMAIN m /\ m[TextName].t = "string"
                        THEN m[TextName].s ELSE <<>>,
                        IF TextArguments \in DOMAIN m THEN m[TextArguments] ELSE JNull)

\* json.Unmarshal into CallToolParams of the parsed text: null leaves the
\* zero value, an object is decoded, anything else (and no JSON) is an error
UnmarshalParsed(parsed) ==
    IF ~parsed.ok THEN CallToolParams(FALSE, <<>>, JNull)
    ELSE IF parsed.v.t = "null" THEN CallToolParams(TRUE, <<>>, JNull)
    ELSE IF parsed.v.t = "object" THEN UnmarshalObject(parsed.v.m)
    ELSE CallToolParams(FALSE, <<>>, JNull)

\* json.Unmarshal(req.Params, &params)
UnmarshalCallToolParams(params) ==
    UnmarshalParsed(ParseJSON(params))

\* response := types.MCPResponse{JSONRPC: "2.0", ID: req.ID}
Response(req) ==
    [jsonrpc |-> "2.0", id |-> req.id, result |-> Nil, error |-> Nil]

\* response.Result = result
WithResult(req, result) ==
    [Response(req) EXCEPT !.result = result]

\* response.Error = &types.MCPError{Code, Message, Data}
WithError(req, code, message, data) ==
    [Response(req) EXCEPT !.error = [nil |-> FALSE, code |-> code, message |-> message,
                                     data |-> data]]

\* what a call of HandleRequest does: the response it returns and the
\* handler calls it makes
Handled(resp, calls) ==
    [response |-> resp, invoked |-> calls]

\* result, err := handler(params.Arguments), for the tool params names;
\* returned is what the handler returns
Invocation(s, params, returned) ==
    [handler |-> s.tools[params.name], name |-> params.name, arguments |-> params.arguments,
     returned |-> returned]

\* types.CallToolResult with one text block holding string(resultJSON)
CallToolResult(text) ==
    [nil |-> FALSE, kind |-> "CallToolResult",
     content |-> <<[type |-> "text", text |-> text]>>]

\* the handler's failure answered with the lower-cased text the
\* classification works on as data, not with the handler's own text
toolsCallLowerData(s, req, params, outcome) ==
    IF ~params.ok
      THEN Handled(WithError(req, ErrorCodeInvalidParams, "Invalid parameters", MsgUnmarshal),
                   <<>>)
    ELSE IF params.name \notin DOMAIN s.tools
      THEN Handled(WithError(req, ErrorCodeMethodNotFound, "Tool not found", params.name),
                   <<>>)
    ELSE IF outcome.err # NoError
      THEN Handled(WithError(req, categorizeToolError(outcome.err).code,
                             categorizeToolError(outcome.err).message,
                             ToLower(outcome.err)),
                   <<Invocation(s, params, outcome)>>)
    ELSE Handled(WithResult(req, CallToolResult(Marshal(outcome.result))),
                 <<Invocation(s, params, outcome)>>)

\* the handler's failure answered with a result that carries the error text
toolsCallFailureAsResult(s, req, params, outcome) ==
    IF ~params.ok
      THEN Handled(WithError(req, ErrorCodeInvalidParams, "Invalid parameters", MsgUnmarshal),
                   <<>>)
    ELSE IF params.name \notin DOMAIN s.tools
      THEN Handled(WithError(req, ErrorCodeMethodNotFound, "Tool not found", params.name),
                   <<>>)
    ELSE IF outcome.err # NoError
      THEN Handled(WithResult(req, CallToolResult(outcome.err)),
                   <<Invocation(s, params, outcome)>>)
    ELSE Handled(WithResult(req, CallToolResult(Marshal(outcome.result))),
                 <<Invocation(s, params, outcome)>>)

\* case "tools/call", once json.Unmarshal returned params; outcome is what
\* the handler returns when it is called
toolsCall(s, req, params, outcome) ==
    IF ~params.ok
      THEN Handled(WithError(req, ErrorCodeInvalidParams, "Invalid parameters", MsgUnmarshal),
                   <<>>)
    ELSE IF params.name \notin DOMAIN s.tools
      THEN Handled(WithError(req, ErrorCodeMethodNotFound, "Tool not found", params.name),
                   <<>>)
    ELSE IF outcome.err # NoError
      THEN Handled(WithError(req, categorizeToolError(outcome.err).code,
                             categorizeToolError(outcome.err).message, outcome.err),
                   <<Invocation(s, params, outcome)>>)
    ELSE Handled(WithResult(req, CallToolResult(Marshal(outcome.result))),
                 <<Invocation(s, params, outcome)>>)

MethodInitialize ==
    <<"i", "n", "i", "t", "i", "a", "l", "i", "z", "e">>

MethodToolsList ==
    <<"t", "o", "o", "l", "s", "/", "l", "i", "s", "t">>

MethodInitialized ==
    <<"n", "o", "t", "i", "f", "i", "c", "a", "t", "i", "o", "n", "s", "/",
      "i", "n", "i", "t", "i", "a", "l", "i", "z", "e", "d">>

MethodToolsCall ==
    <<"t", "o", "o", "l", "s", "/", "c", "a", "l", "l">>

MethodResourcesList ==
    <<"r", "e", "s", "o", "u", "r", "c", "e", "s", "/", "l", "i", "s",
      "t">>

MethodPing ==
    <<"p", "i", "n", "g">>

ToolGetPet ==
    <<"g", "e", "t", "P", "e", "t">>

ToolListPets ==
    <<"l", "i", "s", "t", "P", "e", "t", "s">>

ToolDeletePet ==
    <<"d", "e", "l", "e", "t", "e", "P", "e", "t">>

ArgsPet ==
    <<"{", "\"", "i", "d", "\"", ":", " ", "7", "}">>

TextPet ==
    <<"{", "\"", "i", "d", "\"", ":", " ", "7", ",", " ", "\"", "n", "a",
      "m", "e", "\"", ":", " ", "\"", "r", "e", "x", "\"", "}">>

ParamsArray ==
    <<"[", "1", ",", " ", "2", "]">>

ParamsNameNumber ==
    <<"{", "\"", "n", "a", "m", "e", "\"", ":", " ", "7", "}">>

ParamsArgumentsText ==
    <<"{", "\"", "n", "a", "m", "e", "\"", ":", " ", "\"", "g", "e", "t",
      "P", "e", "t", "\"", ",", " ", "\"", "a", "r", "g", "u", "m", "e",
      "n", "t", "s", "\"", ":", " ", "\"", "x", "\"", "}">>

ParamsBroken ==
    <<"{", "\"", "n", "a", "m", "e", "\"", ":", " ", "\"", "g", "e", "t",
      "P", "e", "t", "\"">>

ErrDeadline ==
    <<"c", "o", "n", "t", "e", "x", "t", " ", "d", "e", "a", "d", "l", "i",
      "n", "e", " ", "e", "x", "c", "e", "e", "d", "e", "d">>

ErrTimeoutUpper ==
    <<"R", "e", "q", "u", "e", "s", "t", " ", "T", "I", "M", "E", "O", "U",
      "T", " ", "a", "f", "t", "e", "r", " ", "3", "0", "s">>

ErrRefused ==
    <<"d", "i", "a", "l", " ", "t", "c", "p", " ", "1", "0", ".", "0", ".",
      "0", ".", "1", ":", "8", "0", ":", " ", "c", "o", "n", "n", "e", "c",
      "t", "i", "o", "n", " ", "r", "e", "f", "u", "s", "e", "d">>

ErrUnauthorized ==
    <<"U", "n", "a", "u", "t", "h", "o", "r", "i", "z", "e", "d">>

ErrNotProvided ==
    <<"r", "e", "q", "u", "i", "r", "e", "d", " ", "p", "a", "r", "a", "m",
      "e", "t", "e", "r", " ", "i", "d", " ", "n", "o", "t", " ", "p", "r",
      "o", "v", "i", "d", "e", "d">>

ErrMarshal ==
    <<"f", "a", "i", "l", "e", "d", " ", "t", "o", " ", "m", "a", "r", "s",
      "h", "a", "l", " ", "r", "e", "q", "u", "e", "s", "t", " ", "b", "o",
      "d", "y">>

ErrJSONTimeout ==
    <<"j", "s", "o", "n", ":", " ", "t", "i", "m", "e", "o", "u", "t", " ",
      "w", "h", "i", "l", "e", " ", "d", "e", "c", "o", "d", "i", "n",
      "g">>

ErrStatus400 ==
    <<"A", "P", "I", " ", "r", "e", "q", "u", "e", "s", "t", " ", "f", "a",
      "i", "l", "e", "d", " ", "w", "i", "t", "h", " ", "s", "t", "a", "t",
      "u", "s", " ", "4", "0", "0">>

ErrStatus401 ==
    <<"A", "P", "I", " ", "r", "e", "q", "u", "e", "s", "t", " ", "f", "a",
      "i", "l", "e", "d", " ", "w", "i", "t", "h", " ", "s", "t", "a", "t",
      "u", "s", " ", "4", "0", "1">>

ErrStatus403 ==
    <<"A", "P", "I", " ", "r", "e", "q", "u", "e", "s", "t", " ", "f", "a",
      "i", "l", "e", "d", " ", "w", "i", "t", "h", " ", "s", "t", "a", "t",
      "u", "s", " ", "4", "0", "3">>

ErrStatus404 ==
    <<"A", "P", "I", " ", "r", "e", "q", "u", "e", "s", "t", " ", "f", "a",
      "i", "l", "e", "d", " ", "w", "i", "t", "h", " ", "s", "t", "a", "t",
      "u", "s", " ", "4", "0", "4">>

ErrStatus422 ==
    <<"A", "P", "I", " ", "r", "e", "q", "u", "e", "s", "t", " ", "f", "a",
      "i", "l", "e", "d", " ", "w", "i", "t", "h", " ", "s", "t", "a", "t",
      "u", "s", " ", "4", "2", "2">>

ErrStatus429 ==
    <<"A", "P", "I", " ", "r", "e", "q", "u", "e", "s", "t", " ", "f", "a",
      "i", "l", "e", "d", " ", "w", "i", "t", "h", " ", "s", "t", "a", "t",
      "u", "s", " ", "4", "2", "9">>

ErrStatus500 ==
    <<"A", "P", "I", " ", "r", "e", "q", "u", "e", "s", "t", " ", "f", "a",
      "i", "l", "e", "d", " ", "w", "i", "t", "h", " ", "s", "t", "a", "t",
      "u", "s", " ", "5", "0", "0">>

ErrBoom ==
    <<"b", "o", "o", "m">>

\* the result of initialize
InitializeResult ==
    [nil |-> FALSE, kind |-> "initialize", protocolVersion |-> "2024-11-05",
     capabilities |-> {"tools"}, serverInfo |-> [name |-> "mcpify", version |-> "1.0.0"]]

\* types.ListToolsResult: one Tool per schema, in the order the range over
\* the map s.schemas takes, which is any order
ListToolsResult(s, order) ==
    [nil |-> FALSE, kind |-> "ListToolsResult",
     tools |-> [i \in 1..Len(order) |->
                  [name |-> s.schemas[order[i]].name,
                   description |-> s.schemas[order[i]].description,
                   inputSchema |-> s.schemas[order[i]].inputSchema]]]

\* the result of notifications/initialized: an empty map
EmptyResult ==
    [nil |-> FALSE, kind |-> "empty"]

\* Server.HandleRequest(req) on server s; order is the iteration order of
\* s.schemas, outcome the return of the handler
HandleRequest(s, req, order, outcome) ==
    IF req.method = MethodInitialize THEN Handled(WithResult(req, InitializeResult), <<>>)
    ELSE IF req.method = MethodToolsList
      THEN Handled(WithResult(req, ListToolsResult(s, order)), <<>>)
    ELSE IF req.method = MethodInitialized THEN Handled(WithResult(req, EmptyResult), <<>>)
    ELSE IF req.method = MethodToolsCall
      THEN toolsCall(s, req, UnmarshalCallToolParams(req.params), outcome)
    ELSE Handled(WithError(req, ErrorCodeMethodNotFound, "Method not found", req.method),
                 <<>>)

\* the orders in which a range over a map with keys S may visit them
Orders(S) ==
    {o \in [1..Cardinality(S) -> S] : \A i, j \in 1..Cardinality(S) : i # j => o[i] # o[j]}

\* the tools the program registers, and the handlers it has for them
ToolPool ==
    {ToolGetPet, ToolListPets}

Handlers ==
    {"apiHandler", "echoHandler"}

\* {"name": "<name>", "arguments": <arguments>}
ParamsText(name, arguments) ==
    <<"{", "\"", "n", "a", "m", "e", "\"", ":", " ", "\"">> \o name
    \o <<"\"", ",", " ", "\"", "a", "r", "g", "u", "m", "e", "n", "t", "s", "\"", ":", " ">>
    \o arguments \o <<"}">>

\* {"name": "<name>"}
ParamsNameOnly(name) ==
    <<"{", "\"", "n", "a", "m", "e", "\"", ":", " ", "\"">> \o name \o <<"\"", "}">>

\* the ids a client sends: none, null, a number, a text
RequestIds ==
    {Nil, JNull, JNum(1), JStr(<<"a">>)}

\* the params of the tools/call requests: well-formed for a registered or an
\* unknown name, with and without arguments, null, absent, and undecodable
CallParams ==
    {ParamsText(n, ArgsPet) : n \in {ToolGetPet, ToolListPets, ToolDeletePet}}
    \cup {ParamsNameOnly(ToolGetPet), ParamsNameOnly(ToolDeletePet), TextNull, <<>>,
          ParamsArray, ParamsNameNumber, ParamsArgumentsText, ParamsBroken}

RpcRequests ==
    {[id |-> i, method |-> m, params |-> <<>>] :
        i \in RequestIds,
        m \in {MethodInitialize, MethodToolsList, MethodInitialized, MethodResourcesList,
               MethodPing, ToolGetPet}}
    \cup {[id |-> i, method |-> MethodToolsCall, params |-> p] :
            i \in {Nil, JNum(1)}, p \in CallParams}

HandlerErrors ==
    {ErrDeadline, ErrTimeoutUpper, ErrRefused, ErrUnauthorized, ErrNotProvided, ErrMarshal,
     ErrJSONTimeout, ErrStatus400, ErrStatus401, ErrStatus403, ErrStatus404, ErrStatus422,
     ErrStatus429, ErrStatus500, ErrBoom}

\* what a handler may return: a value (nil too) and no error, or an error
HandlerOutcomes ==
    {[result |-> r, err |-> NoError] : r \in {ParseJSON(TextPet).v, JNull}}
    \cup {[result |-> JNull, err |-> e] : e \in HandlerErrors}

\* a RegisterTool that request handling may call too
CallRegisterToolWhileServing ==
    /\ \E name \in ToolPool, handler \in Handlers :
         /\ tools' = (name :> handler) @@ tools
         /\ schemas' = (name :> [name |-> name, description |-> "operation",
                                 inputSchema |-> JObj(EmptyMap)]) @@ schemas
    /\ UNCHANGED <<phase, rpc, response, invoked, serverFrame>>

\* s.RegisterTool(name, description, inputSchema, handler), at startup
CallRegisterTool ==
    /\ phase = "startup"
    /\ \E name \in ToolPool, handler \in Handlers :
         /\ tools' = (name :> handler) @@ tools
         /\ schemas' = (name :> [name |-> name, description |-> "operation",
                                 inputSchema |-> JObj(EmptyMap)]) @@ schemas
    /\ UNCHANGED <<phase, rpc, response, invoked, serverFrame>>

\* s.Run(): the transport starts to dispatch requests
Run ==
    /\ phase = "startup"
    /\ phase' = "serving"
    /\ UNCHANGED <<tools, schemas, rpc, response, invoked, serverFrame>>

\* response := t.server.HandleRequest(req), for the request read
CallHandleRequest ==
    /\ phase = "serving"
    /\ rpc = NoRpc
    /\ \E req \in RpcRequests, order \in Orders(DOMAIN schemas), outcome \in HandlerOutcomes :
         /\ rpc' = req
         /\ response' = HandleRequest([tools |-> tools, schemas |-> schemas],
                                      req, order, outcome).response
         /\ invoked' = HandleRequest([tools |-> tools, schemas |-> schemas],
                                     req, order, outcome).invoked
    /\ UNCHANGED <<tools, schemas, phase, serverFrame>>

\* t.writeResponse(response): the response is written, the next line is read
WriteResponse ==
    /\ rpc # NoRpc
    /\ rpc' = NoRpc
    /\ response' = NoResponse
    /\ invoked' = <<>>
    /\ UNCHANGED <<tools, schemas, phase, serverFrame>>

ServerNext ==
    \/ CallRegisterTool
    \/ Run
    \/ CallHandleRequest
    \/ WriteResponse

ServerSpec ==
    Init /\ [][ServerNext]_vars

(***************************************************************************)
(* Properties of the protocol engine.                                      *)
(***************************************************************************)

\* the request answered is a tools/call whose params decode and name a tool
\* that is not in the registry
IsUnknownTool ==
    /\ rpc # NoRpc
    /\ rpc.method = MethodToolsCall
    /\ UnmarshalCallToolParams(rpc.params).ok
    /\ UnmarshalCallToolParams(rpc.params).name \notin DOMAIN tools

\* the code HandleRequest answers a method name it does not know with
UnknownMethodCode ==
    HandleRequest([tools |-> tools, schemas |-> schemas],
                  [id |-> Nil, method |-> MethodPing, params |-> <<>>],
                  <<>>, [result |-> JNull, err |-> NoError]).response.error.code

\* C9 (as stated): a tools/call naming a tool that is not in the registry is
\* answered with a "Tool not found" error whose code differs from the code
\* an unknown method name is answered with, and no handler is invoked.
C9_ToolNotFoundOwnCode ==
    IsUnknownTool
    => /\ response.result = Nil
       /\ response.error # Nil
       /\ response.error.message = "Tool not found"
       /\ invoked = <<>>
       /\ response.error.code # UnknownMethodCode

\* deletePet, never registered: "Tool not found" with the code of "Method
\* not found", the declared ErrorCodeToolNotFound unused
C9_Witness ==
    /\ IsUnknownTool
    /\ response.error # Nil
    /\ response.error.message = "Tool not found"
    /\ response.error.data = ToolDeletePet
    /\ response.error.code = ErrorCodeMethodNotFound
    /\ response.error.code # ErrorCodeToolNotFound
    /\ invoked = <<>>

\* the code each of these handler errors is classified as
ExpectedCode ==
    (ErrDeadline :> ErrorCodeToolTimeoutError)
    @@ (ErrTimeoutUpper :> ErrorCodeToolTimeoutError)
    @@ (ErrJSONTimeout :> ErrorCodeToolTimeoutError)
    @@ (ErrRefused :> ErrorCodeToolNetworkError)
    @@ (ErrUnauthorized :> ErrorCodeToolAuthenticationError)
    @@ (ErrStatus401 :> ErrorCodeToolAuthenticationError)
    @@ (ErrStatus403 :> ErrorCodeToolAuthenticationError)
    @@ (ErrNotProvided :> ErrorCodeToolParameterError)
    @@ (ErrMarshal :> ErrorCodeToolSerializationError)
    @@ (ErrStatus400 :> ErrorCodeToolValidationError)
    @@ (ErrStatus404 :> ErrorCodeToolValidationError)
    @@ (ErrStatus422 :> ErrorCodeToolValidationError)
    @@ (ErrStatus429 :> ErrorCodeToolValidationError)
    @@ (ErrStatus500 :> ErrorCodeToolExecutionFailed)
    @@ (ErrBoom :> ErrorCodeToolExecutionFailed)

\* C10: when the handler invoked by tools/call returns an error, the
\* response has no result and an error whose code is the one the error is
\* classified as, a tool-execution code in -4006..-4000, and whose data is
\* exactly the text of the handler's error.
C10_HandlerErrorReported ==
    \A i \in 1..Len(invoked) :
        invoked[i].returned.err # NoError
        => /\ rpc.method = MethodToolsCall
           /\ response.result = Nil
           /\ response.error # Nil
           /\ response.error.code \in ErrorCodeToolParameterError..ErrorCodeToolExecutionFailed
           /\ response.error.code = ExpectedCode[invoked[i].returned.err]
           /\ response.error.data = invoked[i].returned.err

\* getPet's handler fails with "API request failed with status 404"
C10_Witness ==
    /\ Len(invoked) = 1
    /\ invoked[1].name = ToolGetPet
    /\ invoked[1].returned.err = ErrStatus404
    /\ response.result = Nil
    /\ response.error # Nil
    /\ response.error.code = ErrorCodeToolValidationError
    /\ response.error.data = ErrStatus404

(***************************************************************************)
(* The stdio transport: StdioTransport.Start reads lines, decodes each     *)
(* into an MCPRequest, dispatches it and writes one response.              *)
(***************************************************************************)

ErrorCodeInvalidRequest ==
    -32600

\* json tags of MCPRequest
TextId ==
    <<"i", "d">>

TextJsonrpc ==
    <<"j", "s", "o", "n", "r", "p", "c">>

TextParams ==
    <<"p", "a", "r", "a", "m", "s">>

\* the texts of encoding/json's UnmarshalTypeError
MsgCannotUnmarshal ==
    <<"j", "s", "o", "n", ":", " ", "c", "a", "n", "n", "o", "t", " ", "u",
      "n", "m", "a", "r", "s", "h", "a", "l", " ">>

MsgIntoStructField ==
    <<" ", "i", "n", "t", "o", " ", "G", "o", " ", "s", "t", "r", "u", "c",
      "t", " ", "f", "i", "e", "l", "d", " ", "M", "C", "P", "R", "e", "q",
      "u", "e", "s", "t", ".">>

MsgOfTypeString ==
    <<" ", "o", "f", " ", "t", "y", "p", "e", " ", "s", "t", "r", "i", "n",
      "g">>

MsgIntoMCPRequest ==
    <<" ", "i", "n", "t", "o", " ", "G", "o", " ", "v", "a", "l", "u", "e",
      " ", "o", "f", " ", "t", "y", "p", "e", " ", "t", "y", "p", "e", "s",
      ".", "M", "C", "P", "R", "e", "q", "u", "e", "s", "t">>

\* the text of the SyntaxError for an input that ends inside a value
MsgUnexpectedEnd ==
    <<"u", "n", "e", "x", "p", "e", "c", "t", "e", "d", " ", "e", "n", "d",
      " ", "o", "f", " ", "J", "S", "O", "N", " ", "i", "n", "p", "u", "t">>

\* the name encoding/json gives the kind of a JSON value in its errors
KindText(v) ==
    IF v.t = "number" THEN <<"n", "u", "m", "b", "e", "r">>
    ELSE IF v.t = "string" THEN <<"s", "t", "r", "i", "n", "g">>
    ELSE IF v.t = "bool" THEN <<"b", "o", "o", "l">>
    ELSE IF v.t = "array" THEN <<"a", "r", "r", "a", "y">>
    ELSE <<"o", "b", "j", "e", "c", "t">>

\* a decoded MCPRequest, or the error of json.Unmarshal
Decoded(ok, req, err) ==
    [ok |-> ok, req |-> req, err |-> err]

\* an interface{} field after json.Unmarshal: nil when the member is
\* absent or null, its value otherwise
InterfaceField(m, key) ==
    IF key \in DOMAIN m /\ m[key].t # "null" THEN m[key] ELSE Nil

\* a string field: "" when the member is absent or null
StringField(m, key) ==
    IF key \in DOMAIN m /\ m[key].t = "string" THEN m[key].s ELSE <<>>

\* a json.RawMessage field: the encoding of the member, nothing when it is
\* absent (the member's bytes are kept in their canonical encoding, which
\* decodes to the same value)
RawField(m, key) ==
    IF key \in DOMAIN m THEN Marshal(m[key]) ELSE <<>>

\* does the member fit a string field: absent, null or a string
FitsString(m, key) ==
    key \notin DOMAIN m \/ m[key].t \in {"string", "null"}

\* json.Unmarshal of a JSON object into MCPRequest; a member of the wrong
\* kind is an UnmarshalTypeError (the lines of the model have at most one)
UnmarshalRequestObject(m) ==
    IF ~FitsString(m, TextJsonrpc)
      THEN Decoded(FALSE, NoRpc, MsgCannotUnmarshal \o KindText(m[TextJsonrpc])
                                 \o MsgIntoStructField \o TextJsonrpc \o MsgOfTypeString)
    ELSE IF ~FitsString(m, TextMethod)
      THEN Decoded(FALSE, NoRpc, MsgCannotUnmarshal \o KindText(m[TextMethod])
                                 \o MsgIntoStructField \o TextMethod \o MsgOfTypeString)
    ELSE Decoded(TRUE, [id |-> InterfaceField(m, TextId), method |-> StringField(m, TextMethod),
                        params |-> RawField(m, TextParams)], NoError)

\* json.Unmarshal into MCPRequest of the parsed line: no JSON is a
\* SyntaxError, null leaves the zero request, an object is decoded, any
\* other value is an UnmarshalTypeError
UnmarshalRequestParsed(parsed) ==
    IF ~parsed.ok THEN Decoded(FALSE, NoRpc, MsgUnexpectedEnd)
    ELSE IF parsed.v.t = "null" THEN Decoded(TRUE, NoRpc, NoError)
    ELSE IF parsed.v.t = "object" THEN UnmarshalRequestObject(parsed.v.m)
    ELSE Decoded(FALSE, NoRpc, MsgCannotUnmarshal \o KindText(parsed.v) \o MsgIntoMCPRequest)

\* json.Unmarshal([]byte(line), &req)
UnmarshalMCPRequest(line) ==
    UnmarshalRequestParsed(ParseJSON(line))

\* json.Unmarshal([]byte(line), &rawMap) == nil, then rawMap["id"]: the id
\* of a line that is a JSON object (or null) with that member, nil otherwise
rawMapId(parsed) ==
    IF parsed.ok /\ parsed.v.t = "object" THEN InterfaceField(parsed.v.m, TextId) ELSE Nil

\* a parse error response that never carries an id
parseErrorResponseNoId(line, err) ==
    [jsonrpc |-> "2.0", id |-> Nil, result |-> Nil,
     error |-> [nil |-> FALSE, code |-> ErrorCodeInvalidRequest, message |-> "Parse error",
                data |-> err]]

\* the response to a line that does not decode: "Parse error" with the id
\* extracted from the raw JSON
parseErrorResponse(line, err) ==
    [jsonrpc |-> "2.0", id |-> rawMapId(ParseJSON(line)), result |-> Nil,
     error |-> [nil |-> FALSE, code |-> ErrorCodeInvalidRequest, message |-> "Parse error",
                data |-> err]]

\* what one turn of the loop leaves: the request dispatched (NoRpc when the
\* line did not decode), the response to write and the handler calls made
Turn(req, resp, calls) ==
    [rpc |-> req, response |-> resp, invoked |-> calls]

\* a turn that dispatches all it reads, the empty line too
turnOfLineAnswerEmpty(s, line, decoded, order, outcome) ==
    IF ~decoded.ok THEN Turn(NoRpc, parseErrorResponse(line, decoded.err), <<>>)
    ELSE Turn(decoded.req, HandleRequest(s, decoded.req, order, outcome).response,
              HandleRequest(s, decoded.req, order, outcome).invoked)

\* the body of the loop for one line: an empty line is skipped, a line that
\* does not decode is answered with a parse error, any other is dispatched
turnOfLine(s, line, decoded, order, outcome) ==
    IF line = <<>> THEN Turn(NoRpc, NoResponse, <<>>)
    ELSE IF ~decoded.ok THEN Turn(NoRpc, parseErrorResponse(line, decoded.err), <<>>)
    ELSE Turn(decoded.req, HandleRequest(s, decoded.req, order, outcome).response,
              HandleRequest(s, decoded.req, order, outcome).invoked)

\* the lines a client writes: requests with a number, a text, a null and no id
LineInitialize ==
    <<"{", "\"", "j", "s", "o", "n", "r", "p", "c", "\"", ":", " ", "\"", "2",
      ".", "0", "\"", ",", " ", "\"", "i", "d", "\"", ":", " ", "1", ",", " ",
      "\"", "m", "e", "t", "h", "o", "d", "\"", ":", " ", "\"", "i", "n", "i",
      "t", "i", "a", "l", "i", "z", "e", "\"", "}">>

LineToolsList ==
    <<"{", "\"", "i", "d", "\"", ":", " ", "\"", "a", "\"", ",", " ", "\"",
      "m", "e", "t", "h", "o", "d", "\"", ":", " ", "\"", "t", "o", "o", "l",
      "s", "/", "l", "i", "s", "t", "\"", "}">>

LineInitialized ==
    <<"{", "\"", "m", "e", "t", "h", "o", "d", "\"", ":", " ", "\"", "n", "o",
      "t", "i", "f", "i", "c", "a", "t", "i", "o", "n", "s", "/", "i", "n",
      "i", "t", "i", "a", "l", "i", "z", "e", "d", "\"", "}">>

LinePingNullId ==
    <<"{", "\"", "i", "d", "\"", ":", " ", "n", "u", "l", "l", ",", " ", "\"",
      "m", "e", "t", "h", "o", "d", "\"", ":", " ", "\"", "p", "i", "n", "g",
      "\"", "}">>

LineCallGetPet ==
    <<"{", "\"", "i", "d", "\"", ":", " ", "2", ",", " ", "\"", "m", "e", "t",
      "h", "o", "d", "\"", ":", " ", "\"", "t", "o", "o", "l", "s", "/", "c",
      "a", "l", "l", "\"", ",", " ", "\"", "p", "a", "r", "a", "m", "s", "\"",
      ":", " ", "{", "\"", "n", "a", "m", "e", "\"", ":", " ", "\"", "g", "e",
      "t", "P", "e", "t", "\"", ",", " ", "\"", "a", "r", "g", "u", "m", "e",
      "n", "t", "s", "\"", ":", " ", "{", "\"", "i", "d", "\"", ":", " ", "7",
      "}", "}", "}">>

LineCallDeletePet ==
    <<"{", "\"", "i", "d", "\"", ":", " ", "3", ",", " ", "\"", "m", "e", "t",
      "h", "o", "d", "\"", ":", " ", "\"", "t", "o", "o", "l", "s", "/", "c",
      "a", "l", "l", "\"", ",", " ", "\"", "p", "a", "r", "a", "m", "s", "\"",
      ":", " ", "{", "\"", "n", "a", "m", "e", "\"", ":", " ", "\"", "d", "e",
      "l", "e", "t", "e", "P", "e", "t", "\"", "}", "}">>

LineCallBadParams ==
    <<"{", "\"", "i", "d", "\"", ":", " ", "5", ",", " ", "\"", "m", "e", "t",
      "h", "o", "d", "\"", ":", " ", "\"", "t", "o", "o", "l", "s", "/", "c",
      "a", "l", "l", "\"", ",", " ", "\"", "p", "a", "r", "a", "m", "s", "\"",
      ":", " ", "[", "1", "]", "}">>

\* lines that do not decode as a request: a member of the wrong kind, with a number, a text and no id
LineMethodNumber ==
    <<"{", "\"", "i", "d", "\"", ":", " ", "4", ",", " ", "\"", "m", "e", "t",
      "h", "o", "d", "\"", ":", " ", "5", "}">>

LineJsonrpcNumber ==
    <<"{", "\"", "j", "s", "o", "n", "r", "p", "c", "\"", ":", " ", "2", ",",
      " ", "\"", "i", "d", "\"", ":", " ", "\"", "b", "\"", ",", " ", "\"",
      "m", "e", "t", "h", "o", "d", "\"", ":", " ", "\"", "p", "i", "n", "g",
      "\"", "}">>

LineMethodArrayNoId ==
    <<"{", "\"", "m", "e", "t", "h", "o", "d", "\"", ":", " ", "[", "1", "]",
      "}">>

\* no JSON at all: a request cut short, and a blank line
LineTruncated ==
    <<"{", "\"", "i", "d", "\"", ":", " ", "6", ",", " ", "\"", "m", "e", "t",
      "h", "o", "d", "\"", ":">>

LineBlank ==
    <<" ">>

\* JSON that is no object
LineArray ==
    <<"[", "{", "\"", "i", "d", "\"", ":", " ", "8", "}", "]">>

LineNull ==
    <<"n", "u", "l", "l">>

\* the lines the scanner may return; <<>> is the empty line
InputLines ==
    {LineInitialize, LineToolsList, LineInitialized, LinePingNullId, LineCallGetPet,
     LineCallDeletePet, LineCallBadParams, LineMethodNumber, LineJsonrpcNumber, LineMethodArrayNoId,
     LineTruncated, LineBlank, LineArray, LineNull, <<>>}

\* what the handler of a tool returns to the transport's dispatch
StdioOutcomes ==
    {[result |-> ParseJSON(TextPet).v, err |-> NoError],
     [result |-> JNull, err |-> ErrStatus404]}

\* the lines read from the input of one run
MaxLines ==
    2

\* one turn of the loop of Start up to the response: scanner.Scan() returns a
\* line, which is skipped, answered with a parse error, or dispatched
StdioScan ==
    /\ phase = "serving"
    /\ scanner = "open"
    /\ response = NoResponse
    /\ Len(consumed) < MaxLines
    /\ \E line \in InputLines, order \in Orders(DOMAIN schemas), outcome \in StdioOutcomes :
         \E turn \in {turnOfLine([tools |-> tools, schemas |-> schemas], line,
                                 UnmarshalMCPRequest(line), order, outcome)} :
            /\ consumed' = Append(consumed, line)
            /\ rpc' = turn.rpc
            /\ response' = turn.response
            /\ invoked' = turn.invoked
    /\ UNCHANGED <<tools, schemas, phase, stdout, scanner, transportFrame>>

\* st.writeResponse(response): json.Marshal, which does not fail on a
\* response built from decoded JSON and texts, then one line on the output
StdioWriteResponse ==
    /\ phase = "serving"
    /\ response # NoResponse
    /\ stdout' = Append(stdout, response)
    /\ rpc' = NoRpc
    /\ response' = NoResponse
    /\ invoked' = <<>>
    /\ UNCHANGED <<tools, schemas, phase, consumed, scanner, transportFrame>>

\* scanner.Scan() returns false, at the end of the input or on a read
\* error: the loop ends and Start returns scanner.Err()
StdioScanEnd ==
    /\ phase = "serving"
    /\ scanner = "open"
    /\ response = NoResponse
    /\ \E end \in {"eof", "err"} : scanner' = end
    /\ UNCHANGED <<tools, schemas, phase, rpc, response, invoked, consumed, stdout,
                   transportFrame>>

StdioNext ==
    \/ CallRegisterTool
    \/ Run
    \/ StdioScan
    \/ StdioWriteResponse
    \/ StdioScanEnd

StdioSpec ==
    Init /\ [][StdioNext]_vars

(***************************************************************************)
(* Properties of the stdio transport.                                      *)
(***************************************************************************)

\* the non-empty lines of a sequence of lines, in order
NonEmptyLines(ls) ==
    SelectSeq(ls, LAMBDA l : l # <<>>)

\* the id member each line of the model carries in its text (Nil: the line
\* has none, or null, or is no JSON object in which one could be found)
IdOfLine ==
    (LineInitialize :> JNum(1))
    @@ (LineToolsList :> JStr(<<"a">>))
    @@ (LineInitialized :> Nil)
    @@ (LinePingNullId :> Nil)
    @@ (LineCallGetPet :> JNum(2))
    @@ (LineCallDeletePet :> JNum(3))
    @@ (LineCallBadParams :> JNum(5))
    @@ (LineMethodNumber :> JNum(4))
    @@ (LineJsonrpcNumber :> JStr(<<"b">>))
    @@ (LineMethodArrayNoId :> Nil)
    @@ (LineTruncated :> Nil)
    @@ (LineBlank :> Nil)
    @@ (LineArray :> Nil)
    @@ (LineNull :> Nil)

\* the lines of the model that json.Unmarshal does not decode as a request
UndecodableLines ==
    {LineMethodNumber, LineJsonrpcNumber, LineMethodArrayNoId, LineTruncated, LineBlank,
     LineArray}

\* resp is the parse error answer
IsParseError(resp) ==
    /\ resp.result = Nil
    /\ resp.error # Nil
    /\ resp.error.message = "Parse error"

\* resp correlates with line: it carries the line's id, and it is the parse
\* error answer exactly when the line does not decode
Correlates(resp, line) ==
    /\ resp.id = IdOfLine[line]
    /\ IsParseError(resp) <=> line \in UndecodableLines

Pending ==
    response # NoResponse

\* the responses written and the one waiting are, in order, the answers to
\* the non-empty lines read: one each, none for an empty line
OneResponsePerLine ==
    /\ Len(stdout) + (IF Pending THEN 1 ELSE 0) = Len(NonEmptyLines(consumed))
    /\ \A k \in 1..Len(stdout) : Correlates(stdout[k], NonEmptyLines(consumed)[k])
    /\ Pending => consumed[Len(consumed)] # <<>>

\* a line is read only while the scanner is open and no response waits, and
\* once the scanner has returned false nothing is read or written
ReadsAfterWrite ==
    /\ consumed' # consumed => ~Pending /\ scanner = "open" /\ scanner' = "open"
    /\ scanner # "open" => UNCHANGED <<consumed, stdout, scanner>>
    /\ stdout' # stdout => Pending /\ stdout' = Append(stdout, response) /\ ~Pending'

\* C12: the stdio transport is strictly sequential: every non-empty line
\* read has exactly one response, written before the next line is read, so
\* the responses are in the order of their lines; an empty line has none;
\* after the input ended or failed the transport reads and writes nothing.
C12_StrictlySequential ==
    []OneResponsePerLine /\ [][ReadsAfterWrite]_vars

\* two requests read and answered one after the other, the responses in the
\* order of the lines, then the end of the input
C12_Witness ==
    /\ consumed = <<LineToolsList, LineInitialize>>
    /\ Len(stdout) = 2
    /\ stdout[1].id = JStr(<<"a">>)
    /\ stdout[2].id = JNum(1)
    /\ stdout[2].result = InitializeResult
    /\ scanner = "eof"

(***************************************************************************)
(* The API handler: APIHandler.HandleAPICall builds the outbound request   *)
(* of a tool call, adds the authentication and the forwarded headers and    *)
(* sends it with retries.                                                   *)
(***************************************************************************)

\* the byte of a character of the model (ASCII)
AsciiOf(c) ==
    IF c = " " THEN 32 ELSE IF c = "\"" THEN 34 ELSE IF c = "$" THEN 36
    ELSE IF c = "'" THEN 39 ELSE IF c = "-" THEN 45 ELSE IF c = "." THEN 46
    ELSE IF c = "/" THEN 47 ELSE IF c = ":" THEN 58 ELSE IF c = "[" THEN 91
    ELSE IF c = "]" THEN 93 ELSE IF c = "_" THEN 95 ELSE IF c = "{" THEN 123
    ELSE IF c = "}" THEN 125
    ELSE IF IsDigit(c) THEN 48 + DigitValue(c)
    ELSE IF \E i \in 1..26 : UpperCase[i] = c
      THEN 64 + (CHOOSE i \in 1..26 : UpperCase[i] = c)
    ELSE 96 + (CHOOSE i \in 1..26 : LowerCase[i] = c)

\* the alphabet of base64.StdEncoding
Base64Alphabet ==
    UpperCase \o LowerCase \o Digits \o <<"+", "/">>

\* base64.StdEncoding.EncodeToString of the bytes b[i..], three at a time,
\* the last group padded with "="
RECURSIVE Base64From(_, _)
Base64From(b, i) ==
    IF i > Len(b) THEN <<>>
    ELSE IF i = Len(b)
      THEN <<Base64Alphabet[(b[i] \div 4) + 1], Base64Alphabet[((b[i] % 4) * 16) + 1],
             "=", "=">>
    ELSE IF i + 1 = Len(b)
      THEN <<Base64Alphabet[(b[i] \div 4) + 1],
             Base64Alphabet[((b[i] % 4) * 16) + (b[i + 1] \div 16) + 1],
             Base64Alphabet[((b[i + 1] % 16) * 4) + 1], "=">>
    ELSE <<Base64Alphabet[(b[i] \div 4) + 1],
           Base64Alphabet[((b[i] % 4) * 16) + (b[i + 1] \div 16) + 1],
           Base64Alphabet[((b[i + 1] % 16) * 4) + (b[i + 2] \div 64) + 1],
           Base64Alphabet[(b[i + 2] % 64) + 1]>>
         \o Base64From(b, i + 3)

Base64(s) ==
    Base64From([i \in 1..Len(s) |-> AsciiOf(s[i])], 1)

UpperChar(c) ==
    IF \E i \in 1..26 : LowerCase[i] = c
    THEN UpperCase[CHOOSE i \in 1..26 : LowerCase[i] = c]
    ELSE c

\* the characters a header name may hold (token characters of the model)
IsTokenChar(c) ==
    \/ IsDigit(c)
    \/ \E i \in 1..26 : UpperCase[i] = c \/ LowerCase[i] = c
    \/ c \in {"-", "_", ".", "$", "'"}

\* textproto.CanonicalMIMEHeaderKey: the first letter and every letter after
\* a hyphen in upper case, the others in lower case; a name that holds a
\* character no header name may hold is left as it is
CanonicalMIMEHeaderKey(name) ==
    IF \E i \in 1..Len(name) : ~IsTokenChar(name[i]) THEN name
    ELSE [i \in 1..Len(name) |->
            IF i = 1 \/ name[IF i = 1 THEN 1 ELSE i - 1] = "-"
            THEN UpperChar(name[i]) ELSE LowerChar(name[i])]

\* http.Header.Set(name, value): the one value of the canonical name
HeaderSet(header, name, value) ==
    (CanonicalMIMEHeaderKey(name) :> value) @@ header

\* Set for every entry of a map[string]string, in the order the range
\* takes; order lists the names
RECURSIVE HeaderSetAll(_, _, _, _)
HeaderSetAll(header, values, order, i) ==
    IF i > Len(order) THEN header
    ELSE HeaderSetAll(HeaderSet(header, order[i], values[order[i]]), values, order, i + 1)

TextNilValue ==
    <<"<", "n", "i", "l", ">">>

\* fmt.Sprintf("%v", v) of a tool argument: a text as it is, a number in
\* decimal, a boolean, <nil> (the arguments of the model are scalars)
SprintV(v) ==
    IF v.t = "string" THEN v.s
    ELSE IF v.t = "number" THEN Itoa(v.n)
    ELSE IF v.t = "bool" THEN (IF v.b THEN TextTrue ELSE TextFalse)
    ELSE TextNilValue

HexDigits ==
    Digits \o <<"A", "B", "C", "D", "E", "F">>

\* url.QueryEscape of one character: letters, digits and - _ . as they are,
\* a blank as +, any other byte as %XX
EscapeChar(c) ==
    IF IsDigit(c) \/ c \in {"-", "_", "."} \/ \E i \in 1..26 : UpperCase[i] = c \/ LowerCase[i] = c
      THEN <<c>>
    ELSE IF c = " " THEN <<"+">>
    ELSE <<"%", HexDigits[(AsciiOf(c) \div 16) + 1], HexDigits[(AsciiOf(c) % 16) + 1]>>

RECURSIVE QueryEscape(_)
QueryEscape(s) ==
    IF s = <<>> THEN <<>> ELSE EscapeChar(s[1]) \o QueryEscape(Tail(s))

\* the position of the first pair of a url.Values whose key is the least
FirstLeastKey(pairs) ==
    CHOOSE i \in 1..Len(pairs) :
        /\ \A j \in 1..Len(pairs) : ~TextLess(pairs[j].key, pairs[i].key)
        /\ \A j \in 1..(i - 1) : pairs[j].key # pairs[i].key

\* url.Values.Encode: key=value pairs joined by &, sorted by key, the values
\* of one key in the order they were added
RECURSIVE ValuesEncode(_)
ValuesEncode(pairs) ==
    IF pairs = <<>> THEN <<>>
    ELSE QueryEscape(pairs[FirstLeastKey(pairs)].key) \o <<"=">>
         \o QueryEscape(pairs[FirstLeastKey(pairs)].value)
         \o (IF Len(pairs) = 1 THEN <<>> ELSE <<"&">>)
         \o ValuesEncode(SubSeq(pairs, 1, FirstLeastKey(pairs) - 1)
                         \o SubSeq(pairs, FirstLeastKey(pairs) + 1, Len(pairs)))

\* strings.ReplaceAll(s, old, new), old not empty
RECURSIVE ReplaceAll(_, _, _)
ReplaceAll(s, old, new) ==
    IF s = <<>> THEN <<>>
    ELSE IF HasPrefix(s, old) THEN new \o ReplaceAll(SubSeq(s, Len(old) + 1, Len(s)), old, new)
    ELSE <<s[1]>> \o ReplaceAll(Tail(s), old, new)

\* strings.HasSuffix
HasSuffix(s, suffix) ==
    /\ Len(suffix) <= Len(s)
    /\ SubSeq(s, Len(s) - Len(suffix) + 1, Len(s)) = suffix

\* strings.TrimPrefix
TrimPrefix(s, prefix) ==
    IF HasPrefix(s, prefix) THEN SubSeq(s, Len(prefix) + 1, Len(s)) ELSE s

\* the errors of buildRequestURL and createRequest
ErrBaseURLNotConfigured ==
    <<"b", "a", "s", "e", " ", "U", "R", "L", " ", "n", "o", "t", " ", "c",
      "o", "n", "f", "i", "g", "u", "r", "e", "d">>

ErrfRequiredPath ==
    <<"r", "e", "q", "u", "i", "r", "e", "d", " ", "p", "a", "t", "h", " ",
      "p", "a", "r", "a", "m", "e", "t", "e", "r", " ", "'">>

ErrfRequiredQuery ==
    <<"r", "e", "q", "u", "i", "r", "e", "d", " ", "q", "u", "e", "r", "y",
      " ", "p", "a", "r", "a", "m", "e", "t", "e", "r", " ", "'">>

ErrfRequiredHeader ==
    <<"r", "e", "q", "u", "i", "r", "e", "d", " ", "h", "e", "a", "d", "e",
      "r", " ", "p", "a", "r", "a", "m", "e", "t", "e", "r", " ", "'">>

ErrfNotProvided ==
    <<"'", " ", "n", "o", "t", " ", "p", "r", "o", "v", "i", "d", "e", "d">>

\* the errors of HandleAPICall
ErrfBuildRequestURL ==
    <<"f", "a", "i", "l", "e", "d", " ", "t", "o", " ", "b", "u", "i", "l",
      "d", " ", "r", "e", "q", "u", "e", "s", "t", " ", "U", "R", "L", ":",
      " ">>

ErrfCreateRequest ==
    <<"f", "a", "i", "l", "e", "d", " ", "t", "o", " ", "c", "r", "e", "a",
      "t", "e", " ", "r", "e", "q", "u", "e", "s", "t", ":", " ">>

ErrfEvaluateHeaders ==
    <<"f", "a", "i", "l", "e", "d", " ", "t", "o", " ", "e", "v", "a", "l",
      "u", "a", "t", "e", " ", "h", "e", "a", "d", "e", "r", "s", ":", " ">>

ErrfMakeRequest ==
    <<"f", "a", "i", "l", "e", "d", " ", "t", "o", " ", "m", "a", "k", "e",
      " ", "r", "e", "q", "u", "e", "s", "t", " ", "a", "f", "t", "e", "r",
      " ">>

ErrfAttempts ==
    <<" ", "a", "t", "t", "e", "m", "p", "t", "s", ":", " ">>

ErrfStatus ==
    <<"A", "P", "I", " ", "r", "e", "q", "u", "e", "s", "t", " ", "f", "a",
      "i", "l", "e", "d", " ", "w", "i", "t", "h", " ", "s", "t", "a", "t",
      "u", "s", " ">>

ErrfReadBody ==
    <<"f", "a", "i", "l", "e", "d", " ", "t", "o", " ", "r", "e", "a", "d",
      " ", "r", "e", "s", "p", "o", "n", "s", "e", " ", "b", "o", "d", "y",
      ":", " ">>

\* the warning of addAuthHeaders
WarnAuthHeaders ==
    <<"W", "a", "r", "n", "i", "n", "g", ":", " ", "f", "a", "i", "l", "e",
      "d", " ", "t", "o", " ", "e", "v", "a", "l", "u", "a", "t", "e", " ",
      "a", "u", "t", "h", " ", "h", "e", "a", "d", "e", "r", "s", ":", " ">>

TextBearer ==
    <<"B", "e", "a", "r", "e", "r", " ">>

TextBasic ==
    <<"B", "a", "s", "i", "c", " ">>

TextContentType ==
    <<"C", "o", "n", "t", "e", "n", "t", "-", "T", "y", "p", "e">>

TextPlain ==
    <<"t", "e", "x", "t", "/", "p", "l", "a", "i", "n">>

TextApplicationJSON ==
    <<"a", "p", "p", "l", "i", "c", "a", "t", "i", "o", "n", "/", "j", "s",
      "o", "n">>

\* replace the placeholders of the path parameters, from parameter i on;
\* a required one that is not among the arguments is an error
RECURSIVE replacePathParameters(_, _, _, _)
replacePathParameters(requestURL, tool, params, i) ==
    IF i > Len(tool.parameters) THEN Ret(requestURL, NoError)
    ELSE IF tool.parameters[i].in # "path"
      THEN replacePathParameters(requestURL, tool, params, i + 1)
    ELSE IF tool.parameters[i].name \in DOMAIN params
      THEN replacePathParameters(
               ReplaceAll(requestURL, <<"{">> \o tool.parameters[i].name \o <<"}">>,
                          SprintV(params[tool.parameters[i].name])),
               tool, params, i + 1)
    ELSE IF tool.parameters[i].required
      THEN Ret(<<>>, ErrfRequiredPath \o tool.parameters[i].name \o ErrfNotProvided)
    ELSE replacePathParameters(requestURL, tool, params, i + 1)

\* queryParams.Add for the query parameters, from parameter i on; the
\* result holds the pairs added, or the error
RECURSIVE addQueryParameters(_, _, _, _)
addQueryParameters(queryParams, tool, params, i) ==
    IF i > Len(tool.parameters) THEN [pairs |-> queryParams, err |-> NoError]
    ELSE IF tool.parameters[i].in # "query"
      THEN addQueryParameters(queryParams, tool, params, i + 1)
    ELSE IF tool.parameters[i].name \in DOMAIN params
      THEN addQueryParameters(
               Append(queryParams, [key |-> tool.parameters[i].name,
                                    value |-> SprintV(params[tool.parameters[i].name])]),
               tool, params, i + 1)
    ELSE IF tool.parameters[i].required
      THEN [pairs |-> <<>>, err |-> ErrfRequiredQuery \o tool.parameters[i].name
                                    \o ErrfNotProvided]
    ELSE addQueryParameters(queryParams, tool, params, i + 1)

\* the API key added to the query when it is configured to go there
withAPIKeyQuery(config, pairs) ==
    IF config.auth.type = "api_key" /\ config.auth.apiKeyIn = "query"
    THEN Append(pairs, [key |-> config.auth.apiKeyName, value |-> config.auth.apiKey])
    ELSE pairs

\* buildRequestURL once the path parameters are replaced
queryOfRequestURL(config, replaced, added) ==
    IF replaced.err # NoError THEN replaced
    ELSE IF added.err # NoError THEN Ret(<<>>, added.err)
    ELSE IF withAPIKeyQuery(config, added.pairs) = <<>> THEN replaced
    ELSE Ret(replaced.value \o <<"?">> \o ValuesEncode(withAPIKeyQuery(config, added.pairs)),
             NoError)

\* APIHandler.buildRequestURL(tool, params)
buildRequestURL(config, tool, params) ==
    IF config.baseURL = <<>> THEN Ret(<<>>, ErrBaseURLNotConfigured)
    ELSE queryOfRequestURL(
             config,
             replacePathParameters(
                 (IF HasSuffix(config.baseURL, <<"/">>) THEN config.baseURL
                  ELSE config.baseURL \o <<"/">>) \o TrimPrefix(tool.path, <<"/">>),
                 tool, params, 1),
             addQueryParameters(<<>>, tool, params, 1))

\* an *http.Request: method, URL, header and body (Nil: no body)
HTTPRequest(method, url, header, body) ==
    [method |-> method, url |-> url, header |-> header, body |-> body]

NoHTTPRequest ==
    HTTPRequest("", <<>>, EmptyMap, Nil)

\* a (*http.Request, error) result
ReqRet(req, err) ==
    [req |-> req, err |-> err]

TextBodyKey ==
    <<"b", "o", "d", "y">>

\* the body of the request and its content type: only for a tool with a
\* request body, a POST, PUT or PATCH, and a "body" argument
requestBody(tool, params) ==
    IF tool.requestBody /\ tool.method \in {"POST", "PUT", "PATCH"} /\ TextBodyKey \in DOMAIN params
    THEN IF params[TextBodyKey].t = "string"
           THEN [body |-> [nil |-> FALSE, text |-> params[TextBodyKey].s],
                 contentType |-> TextPlain]
         ELSE IF params[TextBodyKey].t \in {"object", "array"}
           THEN [body |-> [nil |-> FALSE, text |-> Marshal(params[TextBodyKey])],
                 contentType |-> TextApplicationJSON]
         ELSE [body |-> [nil |-> FALSE, text |-> SprintV(params[TextBodyKey])],
               contentType |-> TextPlain]
    ELSE [body |-> Nil, contentType |-> <<>>]

\* the header parameters of the tool set on the request, from parameter i
\* on; a required one that is not among the arguments is an error
RECURSIVE addHeaderParameters(_, _, _, _)
addHeaderParameters(req, tool, params, i) ==
    IF i > Len(tool.parameters) THEN ReqRet(req, NoError)
    ELSE IF tool.parameters[i].in # "header" THEN addHeaderParameters(req, tool, params, i + 1)
    ELSE IF tool.parameters[i].name \in DOMAIN params
      THEN addHeaderParameters(
               [req EXCEPT !.header = HeaderSet(@, tool.parameters[i].name,
                                                SprintV(params[tool.parameters[i].name]))],
               tool, params, i + 1)
    ELSE IF tool.parameters[i].required
      THEN ReqRet(NoHTTPRequest,
                  ErrfRequiredHeader \o tool.parameters[i].name \o ErrfNotProvided)
    ELSE addHeaderParameters(req, tool, params, i + 1)

\* http.NewRequest and the Content-Type of a request with a body (the
\* methods and URLs of the model are well-formed: NewRequest does not fail)
newRequest(tool, requestURL, bodyOf) ==
    HTTPRequest(tool.method, requestURL,
                IF bodyOf.contentType # <<>>
                THEN HeaderSet(EmptyMap, TextContentType, bodyOf.contentType) ELSE EmptyMap,
                bodyOf.body)

\* APIHandler.createRequest(tool, requestURL, params)
createRequest(tool, requestURL, params) ==
    addHeaderParameters(newRequest(tool, requestURL, requestBody(tool, params)),
                        tool, params, 1)

\* the header the configured authentication type sets: bearer, basic, or an
\* API key that goes into a header
builtinAuthHeader(auth, header) ==
    IF auth.type = "bearer" /\ auth.token # <<>>
      THEN HeaderSet(header, NameAuthorization, TextBearer \o auth.token)
    ELSE IF auth.type = "basic" /\ auth.username # <<>> /\ auth.password # <<>>
      THEN HeaderSet(header, NameAuthorization,
                     TextBasic \o Base64(auth.username \o <<":">> \o auth.password))
    ELSE IF auth.type = "api_key" /\ auth.apiKey # <<>> /\ auth.apiKeyName # <<>>
            /\ auth.apiKeyIn = "header"
      THEN HeaderSet(header, auth.apiKeyName, auth.apiKey)
    ELSE header

\* what addAuthHeaders leaves: the header of the request and the log
AuthRet(header, log) ==
    [header |-> header, log |-> log]

\* the second half of addAuthHeaders: on an error of EvaluateHeaders a
\* warning is logged and nothing is set, else every evaluated header is set
customAuthHeaders(header, evaluatedAuthHeaders, order) ==
    IF evaluatedAuthHeaders.err # NoError
      THEN AuthRet(header, <<WarnAuthHeaders \o evaluatedAuthHeaders.err>>)
    ELSE AuthRet(HeaderSetAll(header, evaluatedAuthHeaders.result, order, 1), <<>>)

\* APIHandler.addAuthHeaders(req, ctx); order is the order the
\* range over the evaluated map takes
addAuthHeaders(config, header, ctx, order) ==
    customAuthHeaders(builtinAuthHeader(config.auth, header),
                      EvaluateHeaders(config.auth.headers, ctx), order)

\* HandleAPICall up to the retry loop: the request to send, or the error
\* it returns, and what it logged
Prepared(req, err, log) ==
    [req |-> req, err |-> err, log |-> log]

\* a general directive group whose failure is logged like that of the
\* authentication group, the request going out without its headers
generalHeadersLenient(req, auth, evaluatedHeaders, order) ==
    IF evaluatedHeaders.err # NoError
      THEN Prepared([req EXCEPT !.header = auth.header], NoError,
                    auth.log \o <<ErrfEvaluateHeaders \o evaluatedHeaders.err>>)
    ELSE Prepared([req EXCEPT !.header = HeaderSetAll(auth.header, evaluatedHeaders.result,
                                                      order, 1)],
                  NoError, auth.log)

\* the custom headers: an error of EvaluateHeaders on the general group is
\* returned, else every evaluated header is set; auth is what
\* addAuthHeaders left, order the order of the range over the map
generalHeaders(req, auth, evaluatedHeaders, order) ==
    IF evaluatedHeaders.err # NoError
      THEN Prepared(NoHTTPRequest, ErrfEvaluateHeaders \o evaluatedHeaders.err, auth.log)
    ELSE Prepared([req EXCEPT !.header = HeaderSetAll(auth.header, evaluatedHeaders.result,
                                                      order, 1)],
                  NoError, auth.log)

\* HandleAPICall from createRequest's return on
prepareCreated(config, created, ctx, authOrder, order) ==
    IF created.err # NoError
      THEN Prepared(NoHTTPRequest, ErrfCreateRequest \o created.err, <<>>)
    ELSE generalHeaders(created.req,
                        addAuthHeaders(config, created.req.header, ctx, authOrder),
                        EvaluateHeaders(config.headers, ctx), order)

\* HandleAPICall from buildRequestURL's return on
prepareURL(config, tool, params, ctx, authOrder, order, requestURL) ==
    IF requestURL.err # NoError
      THEN Prepared(NoHTTPRequest, ErrfBuildRequestURL \o requestURL.err, <<>>)
    ELSE prepareCreated(config, createRequest(tool, requestURL.value, params), ctx,
                        authOrder, order)

\* HandleAPICall(tool, params, ctx) up to the retry loop
prepareRequest(config, tool, params, ctx, authOrder, order) ==
    prepareURL(config, tool, params, ctx, authOrder, order,
               buildRequestURL(config, tool, params))

\* the (interface{}, error) result of HandleAPICall (value Nil: nil)
APIRet(value, err) ==
    [value |-> value, err |-> err]

\* the parsed body of a response: nil when it is empty, the JSON value, or
\* the body as a string when it is no JSON
parseBody(body, parsed) ==
    IF body = <<>> THEN JNull
    ELSE IF parsed.ok THEN parsed.v
    ELSE JStr(body)

\* HandleAPICall after the loop, for a response: its body read and parsed
resultOfResponse(resp) ==
    IF resp.readErr # NoError
      THEN APIRet(Nil, ErrfReadBody \o resp.readErr)
    ELSE IF resp.status >= 400
      THEN APIRet(Nil, ErrfStatus \o Itoa(resp.status) \o <<":", " ">> \o resp.body)
    ELSE APIRet([nil |-> FALSE, status_code |-> resp.status, headers |-> resp.header,
                 body |-> parseBody(resp.body, ParseJSON(resp.body))],
                NoError)

\* HandleAPICall after the loop that ended with err set
resultOfFailure(config, err) ==
    APIRet(Nil, ErrfMakeRequest \o Itoa(config.maxRetries + 1) \o ErrfAttempts \o err)

(***************************************************************************)
(* The configurations, tools, arguments and backend answers of the model.  *)
(***************************************************************************)

BaseURLApi ==
    <<"h", "t", "t", "p", ":", "/", "/", "a", "p", "i", ".", "t", "e", "s",
      "t", "/", "v", "1">>

PathPet ==
    <<"/", "p", "e", "t", "s", "/", "{", "p", "e", "t", "I", "d", "}">>

PathPets ==
    <<"/", "p", "e", "t", "s">>

ParamPetId ==
    <<"p", "e", "t", "I", "d">>

ParamTrace ==
    <<"X", "-", "T", "r", "a", "c", "e">>

ParamLimit ==
    <<"l", "i", "m", "i", "t">>

ValTrace ==
    <<"t", "-", "1">>

ValSecret ==
    <<"s", "3", "c", "r", "e", "t">>

ValUser ==
    <<"u", "s", "e", "r">>

NameXApiKey ==
    <<"X", "-", "A", "P", "I", "-", "K", "e", "y">>

TextKey ==
    <<"k", "e", "y">>

BodyPets ==
    <<"[", "{", "\"", "i", "d", "\"", ":", " ", "7", "}", "]">>

BodyNotFound ==
    <<"n", "o", "t", " ", "f", "o", "u", "n", "d">>

ErrReset ==
    <<"c", "o", "n", "n", "e", "c", "t", "i", "o", "n", " ", "r", "e", "s",
      "e", "t", " ", "b", "y", " ", "p", "e", "e", "r">>

\* one parameter of a tool (types.OpenAPIParameter)
Parameter(name, in, required) ==
    [name |-> name, in |-> in, required |-> required]

\* GET /pets/{petId} with a required path parameter, an optional header
\* parameter and an optional query parameter; POST /pets with a request body
\* and a required header parameter
ApiTools ==
    {[name |-> ToolGetPet, method |-> "GET", path |-> PathPet, requestBody |-> FALSE,
      parameters |-> <<Parameter(ParamPetId, "path", TRUE),
                       Parameter(ParamTrace, "header", FALSE),
                       Parameter(ParamLimit, "query", FALSE)>>],
     [name |-> ToolListPets, method |-> "POST", path |-> PathPets, requestBody |-> TRUE,
      parameters |-> <<Parameter(ParamTrace, "header", TRUE)>>]}

\* the arguments of a call: all there, the header parameter missing, the
\* path parameter missing
ToolArguments ==
    {(ParamPetId :> JNum(7)) @@ (ParamTrace :> JStr(ValTrace)) @@ (ParamLimit :> JNum(2))
       @@ (TextBodyKey :> ParseJSON(TextPet).v),
     (ParamPetId :> JNum(7)),
     (ParamTrace :> JStr(ValTrace)) @@ (TextBodyKey :> JStr(ValTrace))}

\* config.AuthConfig
AuthConfig(type, headers) ==
    [type |-> type, token |-> ValSecret, username |-> ValUser, password |-> ValSecret,
     apiKey |-> ValSecret, apiKeyName |-> IF type = "api_key" THEN NameXApiKey ELSE <<>>,
     apiKeyIn |-> "header", headers |-> headers]

ValAuthTrace ==
    <<"a", "u", "t", "h", "-", "t", "r", "a", "c", "e">>

ValGeneralOne ==
    <<"g", "e", "n", "e", "r", "a", "l", "-", "1">>

ValGeneralTwo ==
    <<"g", "e", "n", "e", "r", "a", "l", "-", "2">>

ValGeneralKey ==
    <<"g", "e", "n", "e", "r", "a", "l", "-", "k", "e", "y">>

\* the authentication directive groups: none, one that resolves, one whose
\* second directive fails, one that names the API key header and the tool's
\* header parameter in lower case
AuthDirectiveGroups ==
    {<<>>,
     <<Directive(NameXClient, <<>>, BracketExpr(TextRequestDot, TextQuery, "'", KeyClientId, <<>>))>>,
     <<Directive(NameXApiKey, ValToken, <<>>), Directive(NameXBad, <<>>, ExprUnbalanced)>>,
     <<Directive(ToLower(NameXApiKey), ValToken, <<>>),
       Directive(ToLower(ParamTrace), ValAuthTrace, <<>>)>>}

\* the general directive groups: none, one that resolves, one whose second
\* directive fails, one with two names that differ in case only, one that
\* names the API key header
GeneralDirectiveGroups ==
    {<<>>,
     <<Directive(NameUserAgent, ValUserAgent, <<>>),
       Directive(NameAuthorization, <<>>,
                 BracketExpr(TextRequestDot, TextHeaders, "'", KeyXData, NestedApikey))>>,
     <<Directive(NameUserAgent, ValUserAgent, <<>>), Directive(NameXBad, <<>>, ExprInvalid)>>,
     <<Directive(ParamTrace, ValGeneralOne, <<>>),
       Directive(ToLower(ParamTrace), ValGeneralTwo, <<>>)>>,
     <<Directive(NameXApiKey, ValGeneralKey, <<>>)>>}

\* the most retries a configuration of the model asks for
MaxRetriesConfigured ==
    1

\* config.OpenAPIConfig as the handler reads it
HandlerConfigs ==
    {[baseURL |-> BaseURLApi, auth |-> AuthConfig(type, authHeaders), headers |-> headers,
      maxRetries |-> retries] :
        type \in {"none", "bearer", "basic", "api_key"},
        authHeaders \in AuthDirectiveGroups, headers \in GeneralDirectiveGroups,
        retries \in {0, MaxRetriesConfigured}}
    \cup {[baseURL |-> <<>>, auth |-> AuthConfig("none", <<>>), headers |-> <<>>,
           maxRetries |-> 0],
          [baseURL |-> BaseURLApi,
           auth |-> [AuthConfig("api_key", <<>>) EXCEPT !.apiKeyIn = "query",
                                                        !.apiKeyName = TextKey],
           headers |-> <<>>, maxRetries |-> 0]}

\* the request contexts of the calls: the context of a request that
\* carries the JSON data in X-Data
HandlerContexts ==
    {[ctx EXCEPT !.body = JNull] :
        ctx \in NewRequestContextFromMap(
                    Request(ValRoundTrip, NameXData, NameAuthorization, JNull).headers,
                    Request(ValRoundTrip, NameXData, NameAuthorization, JNull).query,
                    Request(ValRoundTrip, NameXData, NameAuthorization, JNull).form,
                    TextGET, TextApiTest)}

\* what client.Do returns: a transport error, or a response with its
\* status, header and body (readErr: the error of reading the body)
DoError(err) ==
    [err |-> err, status |-> 0, header |-> EmptyMap, body |-> <<>>, readErr |-> NoError]

DoResponse(status, body, readErr) ==
    [err |-> NoError, status |-> status,
     header |-> (TextContentType :> TextApplicationJSON), body |-> body, readErr |-> readErr]

DoOutcomes ==
    {DoError(ErrRefused), DoResponse(200, BodyPets, NoError), DoResponse(204, <<>>, NoError),
     DoResponse(404, BodyNotFound, NoError), DoResponse(200, <<>>, ErrReset)}

\* the loop variable of the retry loop: the attempts made so far
Attempt ==
    Len(attempts)

\* HandleAPICall(tool, params, ctx) is called and runs up to its retry
\* loop, or returns the error of building the request or of the general
\* directive group
CallHandleAPICall ==
    /\ apiCall = NoAPICall
    /\ \E config \in HandlerConfigs, tool \in ApiTools, params \in ToolArguments,
          ctx \in HandlerContexts :
         \E authOrder \in Orders(DOMAIN EvaluateHeaders(config.auth.headers, ctx).result),
            order \in Orders(DOMAIN EvaluateHeaders(config.headers, ctx).result) :
            \E prepared \in {prepareRequest(config, tool, params, ctx, authOrder, order)} :
               /\ apiCall' = [active |-> TRUE, config |-> config, tool |-> tool,
                              params |-> params, ctx |-> ctx]
               /\ apiLog' = prepared.log
               /\ outbound' = IF prepared.err = NoError THEN prepared.req ELSE Nil
               /\ apiResult' = IF prepared.err = NoError THEN PendingResult
                               ELSE APIRet(Nil, prepared.err)
    /\ attempts' = <<>>
    /\ UNCHANGED handlerFrame

\* a retry loop that treats a response with status >= 400 as a failed
\* attempt
ClientDoRetryStatus ==
    /\ apiCall # NoAPICall
    /\ outbound # Nil
    /\ apiResult = PendingResult
    /\ Attempt <= apiCall.config.maxRetries
    /\ \E done \in DoOutcomes :
         /\ attempts' = Append(attempts, [done |-> done, slept |-> 0])
         /\ apiResult' = IF done.err = NoError /\ done.status < 400 THEN resultOfResponse(done)
                         ELSE IF Attempt < apiCall.config.maxRetries THEN PendingResult
                         ELSE IF done.err = NoError THEN resultOfResponse(done)
                         ELSE resultOfFailure(apiCall.config, done.err)
    /\ UNCHANGED <<apiCall, outbound, apiLog, handlerFrame>>

\* one turn of the retry loop: client.Do(req) returns a response, which
\* ends the loop and is turned into the result, or an error, after which
\* the loop sleeps and goes on or, after the last attempt, ends
ClientDo ==
    /\ apiCall # NoAPICall
    /\ outbound # Nil
    /\ apiResult = PendingResult
    /\ Attempt <= apiCall.config.maxRetries
    /\ \E done \in DoOutcomes :
         /\ attempts' = Append(attempts,
                               [done |-> done,
                                slept |-> IF done.err # NoError
                                             /\ Attempt < apiCall.config.maxRetries
                                          THEN Attempt + 1 ELSE 0])
         /\ apiResult' = IF done.err = NoError THEN resultOfResponse(done)
                         ELSE IF Attempt < apiCall.config.maxRetries THEN PendingResult
                         ELSE resultOfFailure(apiCall.config, done.err)
    /\ UNCHANGED <<apiCall, outbound, apiLog, handlerFrame>>

\* HandleAPICall has returned; the handler is ready for the next call
ReturnAPICall ==
    /\ apiCall # NoAPICall
    /\ apiResult # PendingResult
    /\ apiCall' = NoAPICall
    /\ outbound' = Nil
    /\ attempts' = <<>>
    /\ apiLog' = <<>>
    /\ apiResult' = PendingResult
    /\ UNCHANGED handlerFrame

HandlerNext ==
    \/ CallHandleAPICall
    \/ ClientDo
    \/ ReturnAPICall

HandlerSpec ==
    Init /\ [][HandlerNext]_vars

(***************************************************************************)
(* Properties of the API handler.                                          *)
(***************************************************************************)

\* the request of the call in progress can be built: buildRequestURL and
\* createRequest return no error
RequestBuilds ==
    /\ apiCall # NoAPICall
    /\ buildRequestURL(apiCall.config, apiCall.tool, apiCall.params).err = NoError
    /\ createRequest(apiCall.tool,
                     buildRequestURL(apiCall.config, apiCall.tool, apiCall.params).value,
                     apiCall.params).err = NoError

\* resolving the authentication directive group of the call fails
AuthGroupFails ==
    /\ RequestBuilds
    /\ EvaluateHeaders(apiCall.config.auth.headers, apiCall.ctx).err # NoError

\* resolving the general directive group of the call fails
GeneralGroupFails ==
    /\ RequestBuilds
    /\ EvaluateHeaders(apiCall.config.headers, apiCall.ctx).err # NoError

\* the call's configuration with no authentication directive group
WithoutAuthGroup(config) ==
    [config EXCEPT !.auth.headers = <<>>]

C13_WitnessGeneral ==
    /\ GeneralGroupFails
    /\ ~AuthGroupFails
    /\ apiResult # PendingResult
    /\ apiResult.err # NoError
    /\ outbound = Nil
    /\ attempts = <<>>

(***************************************************************************)
(* The configuration: its decoding from a YAML or JSON document, the merge *)
(* with the defaults, the overrides of the command line and the validation. *)
(* A document is the tree of values its parser hands to the decoder.        *)
(***************************************************************************)

\* the errors of HeaderConfig.Validate
ErrHeaderNameRequired ==
    <<"h", "e", "a", "d", "e", "r", " ", "n", "a", "m", "e", " ", "i", "s",
      " ", "r", "e", "q", "u", "i", "r", "e", "d">>

ErrHeaderNeither ==
    <<"h", "e", "a", "d", "e", "r", " ", "m", "u", "s", "t", " ", "h", "a",
      "v", "e", " ", "e", "i", "t", "h", "e", "r", " ", "'", "v", "a", "l",
      "u", "e", "'", " ", "o", "r", " ", "'", "v", "a", "l", "u", "e", "F",
      "r", "o", "m", "'">>

ErrHeaderBoth ==
    <<"h", "e", "a", "d", "e", "r", " ", "c", "a", "n", "n", "o", "t", " ",
      "h", "a", "v", "e", " ", "b", "o", "t", "h", " ", "'", "v", "a", "l",
      "u", "e", "'", " ", "a", "n", "d", " ", "'", "v", "a", "l", "u", "e",
      "F", "r", "o", "m", "'">>

\* the errors of HeadersConfig.Validate and OpenAPIConfig.Validate
ErrfDuplicateHeader ==
    <<"d", "u", "p", "l", "i", "c", "a", "t", "e", " ", "h", "e", "a", "d",
      "e", "r", " ", "n", "a", "m", "e", ":", " ">>

ErrfInvalidHeaders ==
    <<"i", "n", "v", "a", "l", "i", "d", " ", "h", "e", "a", "d", "e", "r",
      "s", ":", " ">>

ErrfInvalidAuthHeaders ==
    <<"i", "n", "v", "a", "l", "i", "d", " ", "a", "u", "t", "h", " ", "h",
      "e", "a", "d", "e", "r", "s", ":", " ">>

ErrfDuplicateBetween ==
    <<"d", "u", "p", "l", "i", "c", "a", "t", "e", " ", "h", "e", "a", "d",
      "e", "r", " ", "n", "a", "m", "e", " ", "b", "e", "t", "w", "e", "e",
      "n", " ", "a", "u", "t", "h", " ", "a", "n", "d", " ", "g", "e", "n",
      "e", "r", "a", "l", " ", "h", "e", "a", "d", "e", "r", "s", ":", " ">>

\* the error of a decoder for a value of the wrong kind
ErrCannotDecode ==
    <<"c", "a", "n", "n", "o", "t", " ", "d", "e", "c", "o", "d", "e", " ",
      "v", "a", "l", "u", "e">>

\* the keys of a directive
TextValue ==
    <<"v", "a", "l", "u", "e">>

TextValueFrom ==
    <<"v", "a", "l", "u", "e", "F", "r", "o", "m">>

TextHeader ==
    <<"h", "e", "a", "d", "e", "r">>

\* the accepting Validate: a directive with a name is valid
HeaderConfigValidateNameOnly(h) ==
    IF h.name = <<>> THEN ErrHeaderNameRequired ELSE NoError

\* HeaderConfig.Validate: the error, NoError for nil
HeaderConfigValidate(h) ==
    IF h.name = <<>> THEN ErrHeaderNameRequired
    ELSE IF h.value = <<>> /\ h.valueFrom = <<>> THEN ErrHeaderNeither
    ELSE IF h.value # <<>> /\ h.valueFrom # <<>> THEN ErrHeaderBoth
    ELSE NoError

\* can the decoder of the format put the member into a string field: it is
\* absent, null or a string, and for YAML any scalar
DecodesAsString(format, m, key) ==
    \/ key \notin DOMAIN m
    \/ m[key].t \in {"string", "null"}
    \/ format = "yaml" /\ m[key].t \in {"number", "bool"}

\* the string field decoded from the member: "" when it is absent or null,
\* the text of a YAML scalar
DecodedString(m, key) ==
    IF key \notin DOMAIN m \/ m[key].t = "null" THEN <<>>
    ELSE IF m[key].t = "string" THEN m[key].s
    ELSE SprintV(m[key])

\* a decoded directive, or the error of decoding it
HeaderConfigRet(h, err) ==
    [h |-> h, err |-> err]

\* HeaderConfig.UnmarshalYAML / UnmarshalJSON: the three members are decoded
\* into aux, copied, and the directive is validated
UnmarshalHeaderConfig(format, node) ==
    IF node.t # "object" THEN HeaderConfigRet(Directive(<<>>, <<>>, <<>>), ErrCannotDecode)
    ELSE IF \E key \in {TextName, TextValue, TextValueFrom} : ~DecodesAsString(format, node.m, key)
      THEN HeaderConfigRet(Directive(<<>>, <<>>, <<>>), ErrCannotDecode)
    ELSE HeaderConfigRet(
             Directive(DecodedString(node.m, TextName), DecodedString(node.m, TextValue),
                       DecodedString(node.m, TextValueFrom)),
             HeaderConfigValidate(Directive(DecodedString(node.m, TextName),
                                            DecodedString(node.m, TextValue),
                                            DecodedString(node.m, TextValueFrom))))

\* HeadersConfig.Validate from item i on; seen holds the names before it
RECURSIVE HeadersConfigValidateFrom(_, _, _)
HeadersConfigValidateFrom(h, i, seen) ==
    IF i > Len(h) THEN NoError
    ELSE IF HeaderConfigValidate(h[i]) # NoError THEN HeaderConfigValidate(h[i])
    ELSE IF h[i].name \in seen THEN ErrfDuplicateHeader \o h[i].name
    ELSE HeadersConfigValidateFrom(h, i + 1, seen \cup {h[i].name})

\* HeadersConfig.Validate
HeadersConfigValidate(h) ==
    HeadersConfigValidateFrom(h, 1, {})

\* a decoded list of directives, or the error of decoding it
HeadersConfigRet(h, err) ==
    [h |-> h, err |-> err]

\* the decoding of a list of header items from element i on: an item is a
\* mapping whose "header" member is decoded as a directive
RECURSIVE decodeHeaderItems(_, _, _, _)
decodeHeaderItems(format, elements, i, items) ==
    IF i > Len(elements) THEN HeadersConfigRet(items, NoError)
    ELSE IF elements[i].t = "null"
      THEN decodeHeaderItems(format, elements, i + 1,
                             Append(items, Directive(<<>>, <<>>, <<>>)))
    ELSE IF elements[i].t # "object" THEN HeadersConfigRet(<<>>, ErrCannotDecode)
    ELSE IF TextHeader \notin DOMAIN elements[i].m \/ elements[i].m[TextHeader].t = "null"
      THEN decodeHeaderItems(format, elements, i + 1,
                             Append(items, Directive(<<>>, <<>>, <<>>)))
    ELSE IF UnmarshalHeaderConfig(format, elements[i].m[TextHeader]).err # NoError
      THEN HeadersConfigRet(<<>>, UnmarshalHeaderConfig(format, elements[i].m[TextHeader]).err)
    ELSE decodeHeaderItems(format, elements, i + 1,
                           Append(items, UnmarshalHeaderConfig(format,
                                                               elements[i].m[TextHeader]).h))

\* a conversion that takes the values of the old format for expressions
legacyItemsAsExpressions(m, order) ==
    [i \in 1..Len(order) |-> Directive(order[i], <<>>, DecodedString(m, order[i]))]

\* the old format converted: one literal directive per entry of the map, in
\* the order the range over the map takes
legacyItems(m, order) ==
    [i \in 1..Len(order) |-> Directive(order[i], DecodedString(m, order[i]), <<>>)]

\* the list decoded, then validated
validatedHeaders(items) ==
    HeadersConfigRet(items, HeadersConfigValidate(items))

\* the fallback of the decoding: the old format, a map of string to string
unmarshalLegacyHeaders(format, node, order) ==
    IF node.t # "object" THEN HeadersConfigRet(<<>>, ErrCannotDecode)
    ELSE IF \E key \in DOMAIN node.m : ~DecodesAsString(format, node.m, key)
      THEN HeadersConfigRet(<<>>, ErrCannotDecode)
    ELSE validatedHeaders(legacyItems(node.m, order))

\* HeadersConfig.UnmarshalYAML / UnmarshalJSON once the new format was
\* tried: its items when that decoded, else the old format
unmarshalHeadersTried(format, node, order, tried) ==
    IF tried.err = NoError THEN validatedHeaders(tried.h)
    ELSE unmarshalLegacyHeaders(format, node, order)

\* HeadersConfig.UnmarshalYAML / UnmarshalJSON of the headers member (absent
\* or null: the decoder is not called, the list stays nil); order is the
\* order of the range over the old format's map
UnmarshalHeadersConfig(format, node, order) ==
    IF node.t = "null" THEN HeadersConfigRet(<<>>, NoError)
    ELSE unmarshalHeadersTried(format, node, order,
                               IF node.t = "array"
                               THEN decodeHeaderItems(format, node.e, 1, <<>>)
                               ELSE HeadersConfigRet(<<>>, ErrCannotDecode))

\* the general directives checked against the names of the authentication
\* group, from item i on
RECURSIVE duplicateBetween(_, _, _)
duplicateBetween(headers, authHeaderNames, i) ==
    IF i > Len(headers) THEN NoError
    ELSE IF headers[i].name \in authHeaderNames
      THEN ErrfDuplicateBetween \o headers[i].name
    ELSE duplicateBetween(headers, authHeaderNames, i + 1)

\* a validation of the two groups each on its own
OpenAPIConfigValidateGroupsOnly(o) ==
    IF HeadersConfigValidate(o.headers) # NoError
      THEN ErrfInvalidHeaders \o HeadersConfigValidate(o.headers)
    ELSE IF HeadersConfigValidate(o.auth.headers) # NoError
      THEN ErrfInvalidAuthHeaders \o HeadersConfigValidate(o.auth.headers)
    ELSE NoError

\* OpenAPIConfig.Validate
OpenAPIConfigValidate(o) ==
    IF HeadersConfigValidate(o.headers) # NoError
      THEN ErrfInvalidHeaders \o HeadersConfigValidate(o.headers)
    ELSE IF HeadersConfigValidate(o.auth.headers) # NoError
      THEN ErrfInvalidAuthHeaders \o HeadersConfigValidate(o.auth.headers)
    ELSE duplicateBetween(o.headers,
                          {o.auth.headers[i].name : i \in 1..Len(o.auth.headers)}, 1)

(***************************************************************************)
(* The calls of the configuration package, each followed on its own from   *)
(* the start: configCall records the operation, what it was given and what *)
(* it returned.                                                            *)
(***************************************************************************)

\* a valueFrom expression of a directive
ExprClientId ==
    BracketExpr(TextRequestDot, TextQuery, "'", KeyClientId, <<>>)

\* the directives handed to Validate: every combination of an empty or
\* non-empty name, value and valueFrom
ValidationDirectives ==
    {Directive(name, value, valueFrom) :
        name \in {<<>>, NameXClient, NameUserAgent},
        value \in {<<>>, ValUserAgent},
        valueFrom \in {<<>>, ExprClientId}}

\* a member that the document does not have
Absent ==
    [t |-> "absent"]

\* the mapping with the three members, without the absent ones
DirectiveNode(name, value, valueFrom) ==
    JObj([key \in {k \in {TextName, TextValue, TextValueFrom} :
                       (IF k = TextName THEN name
                        ELSE IF k = TextValue THEN value ELSE valueFrom) # Absent} |->
              IF key = TextName THEN name
              ELSE IF key = TextValue THEN value ELSE valueFrom])

\* the nodes a directive is decoded from: mappings whose members are absent,
\* empty, non-empty or a number, and nodes that are not a mapping
DirectiveNodes ==
    {DirectiveNode(name, value, valueFrom) :
        name \in {Absent, JStr(<<>>), JStr(NameXClient), JNum(7)},
        value \in {Absent, JStr(<<>>), JStr(ValUserAgent), JNull},
        valueFrom \in {Absent, JStr(<<>>), JStr(ExprClientId)}}
    \cup {JStr(NameXClient), JArr(<<>>)}

Formats ==
    {"json", "yaml"}

\* HeaderConfig.Validate on a directive built in the program
CallHeaderConfigValidate ==
    /\ configCall = NoConfigCall
    /\ \E h \in ValidationDirectives :
         configCall' = [op |-> "HeaderConfig.Validate", h |-> h,
                        err |-> HeaderConfigValidate(h)]
    /\ UNCHANGED configFrame

\* yaml.Unmarshal / json.Unmarshal of a document into a HeaderConfig
CallUnmarshalHeaderConfig ==
    /\ configCall = NoConfigCall
    /\ \E format \in Formats, node \in DirectiveNodes :
         configCall' = [op |-> "HeaderConfig.Unmarshal", format |-> format, node |-> node,
                        h |-> UnmarshalHeaderConfig(format, node).h,
                        err |-> UnmarshalHeaderConfig(format, node).err]
    /\ UNCHANGED configFrame

\* a directive is well formed: a name, and exactly one of value and valueFrom
WellFormed(h) ==
    /\ h.name # <<>>
    /\ (h.value # <<>>) # (h.valueFrom # <<>>)

\* the text a mapping gives for a key, empty when it has none
MemberText(node, key) ==
    IF key \in DOMAIN node.m /\ node.m[key].t = "string" THEN node.m[key].s ELSE <<>>

\* a mapping all of whose members are strings
IsTextMapping(node) ==
    /\ node.t = "object"
    /\ \A key \in DOMAIN node.m : node.m[key].t = "string"

\* the directive a mapping of strings spells
DirectiveOfNode(node) ==
    Directive(MemberText(node, TextName), MemberText(node, TextValue),
              MemberText(node, TextValueFrom))

\* C14: a forwarding directive is valid iff its name is non-empty and exactly
\* one of value and valueFrom is non-empty: HeaderConfig.Validate returns nil
\* for exactly these directives, and decoding a directive from YAML or JSON
\* succeeds only with such a directive and fails for every mapping that
\* spells one with both, with neither or with an empty name.
C14_DirectiveValidity ==
    /\ configCall.op = "HeaderConfig.Validate" =>
         (configCall.err = NoError <=> WellFormed(configCall.h))
    /\ configCall.op = "HeaderConfig.Unmarshal" =>
         /\ configCall.err = NoError => WellFormed(configCall.h)
         /\ IsTextMapping(configCall.node) =>
              (configCall.err = NoError <=> WellFormed(DirectiveOfNode(configCall.node)))

\* a JSON mapping with a name and both value sources was decoded and rejected
C14_Witness ==
    /\ configCall.op = "HeaderConfig.Unmarshal"
    /\ configCall.format = "json"
    /\ configCall.node = DirectiveNode(JStr(NameXClient), JStr(ValUserAgent), JStr(ExprClientId))
    /\ configCall.err = ErrHeaderBoth

\* the keys of the configuration document
KeyServer ==
    <<"s", "e", "r", "v", "e", "r">>

KeyTransport ==
    <<"t", "r", "a", "n", "s", "p", "o", "r", "t">>

KeyHttp ==
    <<"h", "t", "t", "p">>

KeyHost ==
    <<"h", "o", "s", "t">>

KeyPort ==
    <<"p", "o", "r", "t">>

KeySessionTimeout ==
    <<"s", "e", "s", "s", "i", "o", "n", "_", "t", "i", "m", "e", "o", "u",
      "t">>

KeyMaxConnections ==
    <<"m", "a", "x", "_", "c", "o", "n", "n", "e", "c", "t", "i", "o", "n",
      "s">>

KeyCors ==
    <<"c", "o", "r", "s">>

KeyEnabled ==
    <<"e", "n", "a", "b", "l", "e", "d">>

KeyOrigins ==
    <<"o", "r", "i", "g", "i", "n", "s">>

KeyLogging ==
    <<"l", "o", "g", "g", "i", "n", "g">>

KeyLevel ==
    <<"l", "e", "v", "e", "l">>

KeyFormat ==
    <<"f", "o", "r", "m", "a", "t">>

KeyOutput ==
    <<"o", "u", "t", "p", "u", "t">>

KeyOpenapi ==
    <<"o", "p", "e", "n", "a", "p", "i">>

KeySpecPath ==
    <<"s", "p", "e", "c", "_", "p", "a", "t", "h">>

KeyBaseUrl ==
    <<"b", "a", "s", "e", "_", "u", "r", "l">>

KeyTimeout ==
    <<"t", "i", "m", "e", "o", "u", "t">>

KeyMaxRetries ==
    <<"m", "a", "x", "_", "r", "e", "t", "r", "i", "e", "s">>

KeyAuth ==
    <<"a", "u", "t", "h">>

KeyType ==
    <<"t", "y", "p", "e">>

KeyHeaders ==
    <<"h", "e", "a", "d", "e", "r", "s">>

KeySecurity ==
    <<"s", "e", "c", "u", "r", "i", "t", "y">>

KeyRateLimiting ==
    <<"r", "a", "t", "e", "_", "l", "i", "m", "i", "t", "i", "n", "g">>

KeyRequestsPerMinute ==
    <<"r", "e", "q", "u", "e", "s", "t", "s", "_", "p", "e", "r", "_", "m",
      "i", "n", "u", "t", "e">>

KeyRequestSizeLimit ==
    <<"r", "e", "q", "u", "e", "s", "t", "_", "s", "i", "z", "e", "_", "l",
      "i", "m", "i", "t">>

\* authentication types
TextNone ==
    <<"n", "o", "n", "e">>

TextBearerType ==
    <<"b", "e", "a", "r", "e", "r">>

\* the units of time.ParseDuration that the model counts in
UnitMs ==
    <<"m", "s">>

UnitS ==
    <<"s">>

UnitM ==
    <<"m">>

UnitH ==
    <<"h">>

\* durations as a document spells them
Text45s ==
    <<"4", "5", "s">>

Text0s ==
    <<"0", "s">>

Text10m ==
    <<"1", "0", "m">>

Text1m30s ==
    <<"1", "m", "3", "0", "s">>

TextSoon ==
    <<"s", "o", "o", "n">>

SizeLimit2MB ==
    <<"2", "M", "B">>

\* fmt.Errorf of Load
ErrfConfigNotFound ==
    <<"c", "o", "n", "f", "i", "g", "u", "r", "a", "t", "i", "o", "n", " ",
      "f", "i", "l", "e", " ", "n", "o", "t", " ", "f", "o", "u", "n", "d",
      ":", " ">>

ErrfUnsupportedFormat ==
    <<"u", "n", "s", "u", "p", "p", "o", "r", "t", "e", "d", " ", "c", "o",
      "n", "f", "i", "g", "u", "r", "a", "t", "i", "o", "n", " ", "f", "i",
      "l", "e", " ", "f", "o", "r", "m", "a", "t", ":", " ">>

ErrfParseConfig ==
    <<"f", "a", "i", "l", "e", "d", " ", "t", "o", " ", "p", "a", "r", "s",
      "e", " ", "c", "o", "n", "f", "i", "g", "u", "r", "a", "t", "i", "o",
      "n", " ", "f", "i", "l", "e", ":", " ">>

ErrInvalidDuration ==
    <<"t", "i", "m", "e", ":", " ", "i", "n", "v", "a", "l", "i", "d", " ",
      "d", "u", "r", "a", "t", "i", "o", "n">>

\* file extensions
ExtYaml ==
    <<".", "y", "a", "m", "l">>

ExtJson ==
    <<".", "j", "s", "o", "n">>

ExtTxt ==
    <<".", "t", "x", "t">>

\* errors.New: the sentinel errors of Config.Validate
ErrInvalidTransport ==
    <<"i", "n", "v", "a", "l", "i", "d", " ", "t", "r", "a", "n", "s", "p",
      "o", "r", "t", " ", "m", "e", "t", "h", "o", "d">>

ErrInvalidPort ==
    <<"i", "n", "v", "a", "l", "i", "d", " ", "p", "o", "r", "t", " ", "n",
      "u", "m", "b", "e", "r">>

ErrMissingOpenAPISpec ==
    <<"O", "p", "e", "n", "A", "P", "I", " ", "s", "p", "e", "c", " ", "p",
      "a", "t", "h", " ", "i", "s", " ", "r", "e", "q", "u", "i", "r", "e",
      "d">>

ErrInvalidTimeout ==
    <<"i", "n", "v", "a", "l", "i", "d", " ", "t", "i", "m", "e", "o", "u",
      "t", " ", "v", "a", "l", "u", "e">>

ErrInvalidMaxRetries ==
    <<"i", "n", "v", "a", "l", "i", "d", " ", "m", "a", "x", " ", "r", "e",
      "t", "r", "i", "e", "s", " ", "v", "a", "l", "u", "e">>

ErrInvalidRateLimit ==
    <<"i", "n", "v", "a", "l", "i", "d", " ", "r", "a", "t", "e", " ", "l",
      "i", "m", "i", "t", " ", "v", "a", "l", "u", "e">>

\* the transports
TextStdio ==
    <<"s", "t", "d", "i", "o">>

TextHttp ==
    <<"h", "t", "t", "p">>

TextTcp ==
    <<"t", "c", "p">>

\* the values of Default()
HostLoopback ==
    <<"1", "2", "7", ".", "0", ".", "0", ".", "1">>

HostAny ==
    <<"0", ".", "0", ".", "0", ".", "0">>

OriginLocalhost ==
    <<"h", "t", "t", "p", ":", "/", "/", "l", "o", "c", "a", "l", "h", "o",
      "s", "t", ":", "3", "0", "0", "0">>

OriginLoopback ==
    <<"h", "t", "t", "p", ":", "/", "/", "1", "2", "7", ".", "0", ".", "0",
      ".", "1", ":", "3", "0", "0", "0">>

OriginExample ==
    <<"h", "t", "t", "p", "s", ":", "/", "/", "a", "p", "p", ".", "e", "x",
      "a", "m", "p", "l", "e", ".", "c", "o", "m">>

LevelInfo ==
    <<"i", "n", "f", "o">>

LevelDebug ==
    <<"d", "e", "b", "u", "g">>

FormatJson ==
    <<"j", "s", "o", "n">>

OutputStdout ==
    <<"s", "t", "d", "o", "u", "t">>

SizeLimit1MB ==
    <<"1", "M", "B">>

\* spec paths and base URLs
SpecPathFile ==
    <<".", "/", "a", "p", "i", ".", "y", "a", "m", "l">>

SpecPathUrl ==
    <<"h", "t", "t", "p", ":", "/", "/", "l", "o", "c", "a", "l", "h", "o",
      "s", "t", ":", "8", "0", "8", "0", "/", "s", "w", "a", "g", "g", "e",
      "r">>

SpecPathUrlDefaultPort ==
    <<"h", "t", "t", "p", "s", ":", "/", "/", "a", "p", "i", ".", "e", "x",
      "a", "m", "p", "l", "e", ".", "c", "o", "m", ":", "4", "4", "3", "/",
      "v", "1", "/", "s", "p", "e", "c", ".", "j", "s", "o", "n">>

SpecPathUrlNoPort ==
    <<"h", "t", "t", "p", "s", ":", "/", "/", "a", "p", "i", ".", "e", "x",
      "a", "m", "p", "l", "e", ".", "c", "o", "m", "/", "s", "p", "e", "c">>

SpecPathUrlHttp80 ==
    <<"h", "t", "t", "p", ":", "/", "/", "a", "p", "i", ".", "e", "x", "a",
      "m", "p", "l", "e", ".", "c", "o", "m", ":", "8", "0", "/", "s", "p",
      "e", "c">>

BaseURLConfigured ==
    <<"h", "t", "t", "p", "s", ":", "/", "/", "c", "o", "n", "f", "i", "g",
      "u", "r", "e", "d", ".", "e", "x", "a", "m", "p", "l", "e", ".", "c",
      "o", "m">>

BaseURLFlag ==
    <<"h", "t", "t", "p", "s", ":", "/", "/", "f", "l", "a", "g", ".", "e",
      "x", "a", "m", "p", "l", "e", ".", "c", "o", "m">>

\* a time.Duration of n seconds, of n minutes; the model counts durations in
\* milliseconds
Seconds(n) ==
    n * 1000

Minutes(n) ==
    n * 60000

\* config.Default()
Default ==
    [server |-> [transport |-> TextStdio,
                 http |-> [host |-> HostLoopback, port |-> 8080,
                           sessionTimeout |-> Minutes(5), maxConnections |-> 100,
                           cors |-> [enabled |-> TRUE,
                                     origins |-> <<OriginLocalhost, OriginLoopback>>]]],
     logging |-> [level |-> LevelInfo, format |-> FormatJson, output |-> OutputStdout],
     openapi |-> [specPath |-> <<>>, baseURL |-> <<>>,
                  auth |-> [type |-> TextNone, token |-> <<>>, username |-> <<>>,
                            password |-> <<>>, apiKey |-> <<>>, apiKeyName |-> <<>>,
                            apiKeyIn |-> <<>>, headers |-> <<>>],
                  headers |-> <<>>, timeout |-> Seconds(30), maxRetries |-> 3,
                  toolPrefix |-> <<>>, debug |-> FALSE],
     security |-> [rateLimiting |-> [enabled |-> TRUE, requestsPerMinute |-> 100],
                   requestSizeLimit |-> SizeLimit1MB]]

\* the zero value of Config, which the decoders fill
ZeroConfig ==
    [server |-> [transport |-> <<>>,
                 http |-> [host |-> <<>>, port |-> 0, sessionTimeout |-> 0,
                           maxConnections |-> 0,
                           cors |-> [enabled |-> FALSE, origins |-> <<>>]]],
     logging |-> [level |-> <<>>, format |-> <<>>, output |-> <<>>],
     openapi |-> [specPath |-> <<>>, baseURL |-> <<>>,
                  auth |-> [type |-> <<>>, token |-> <<>>, username |-> <<>>,
                            password |-> <<>>, apiKey |-> <<>>, apiKeyName |-> <<>>,
                            apiKeyIn |-> <<>>, headers |-> <<>>],
                  headers |-> <<>>, timeout |-> 0, maxRetries |-> 0,
                  toolPrefix |-> <<>>, debug |-> FALSE],
     security |-> [rateLimiting |-> [enabled |-> FALSE, requestsPerMinute |-> 0],
                   requestSizeLimit |-> <<>>]]

\* a validation that looks at the port before the transport
ConfigValidatePortFirst(c) ==
    IF c.server.http.port < 1 \/ c.server.http.port > 65535 THEN ErrInvalidPort
    ELSE IF c.server.transport # TextStdio /\ c.server.transport # TextHttp
      THEN ErrInvalidTransport
    ELSE IF c.openapi.specPath = <<>> THEN ErrMissingOpenAPISpec
    ELSE IF c.openapi.timeout < Seconds(1) THEN ErrInvalidTimeout
    ELSE IF c.openapi.maxRetries < 0 THEN ErrInvalidMaxRetries
    ELSE IF c.security.rateLimiting.requestsPerMinute < 1 THEN ErrInvalidRateLimit
    ELSE OpenAPIConfigValidate(c.openapi)

\* Config.Validate
ConfigValidate(c) ==
    IF c.server.transport # TextStdio /\ c.server.transport # TextHttp
      THEN ErrInvalidTransport
    ELSE IF c.server.http.port < 1 \/ c.server.http.port > 65535 THEN ErrInvalidPort
    ELSE IF c.openapi.specPath = <<>> THEN ErrMissingOpenAPISpec
    ELSE IF c.openapi.timeout < Seconds(1) THEN ErrInvalidTimeout
    ELSE IF c.openapi.maxRetries < 0 THEN ErrInvalidMaxRetries
    ELSE IF c.security.rateLimiting.requestsPerMinute < 1 THEN ErrInvalidRateLimit
    ELSE OpenAPIConfigValidate(c.openapi)

\* the directives of the groups handed to the validations of lists
GroupDirectives ==
    {Directive(NameXClient, ValUserAgent, <<>>),
     Directive(NameXClient, <<>>, ExprClientId),
     Directive(NameUserAgent, ValUserAgent, <<>>),
     Directive(NameAuthorization, <<>>, ExprClientId),
     Directive(<<>>, ValUserAgent, <<>>)}

\* the longest group of directives
MaxGroup ==
    2

\* the groups: up to MaxGroup directives, in any order, repeated or not
DirectiveGroups ==
    UNION {[1..n -> GroupDirectives] : n \in 0..MaxGroup}

\* HeadersConfig.Validate on a list built in the program
CallHeadersConfigValidate ==
    /\ configCall = NoConfigCall
    /\ \E h \in DirectiveGroups :
         configCall' = [op |-> "HeadersConfig.Validate", headers |-> h,
                        err |-> HeadersConfigValidate(h)]
    /\ UNCHANGED configFrame

\* OpenAPIConfig.Validate on a configuration built in the program
CallOpenAPIConfigValidate ==
    /\ configCall = NoConfigCall
    /\ \E headers \in DirectiveGroups, authHeaders \in DirectiveGroups :
         configCall' = [op |-> "OpenAPIConfig.Validate", headers |-> headers,
                        authHeaders |-> authHeaders,
                        err |-> OpenAPIConfigValidate(
                                    [Default.openapi EXCEPT !.headers = headers,
                                                            !.auth.headers = authHeaders])]
    /\ UNCHANGED configFrame

\* the directives of a list are well formed and no two have the same name
DistinctWellFormed(h) ==
    /\ \A i \in 1..Len(h) : WellFormed(h[i])
    /\ \A i, j \in 1..Len(h) : i # j => h[i].name # h[j].name

\* C15: directive names are unique in every validated configuration:
\* HeadersConfig.Validate rejects a list in which two directives have the
\* same name, OpenAPIConfig.Validate rejects as well a name that is in both
\* the authentication group and the general group, and a configuration whose
\* directives are well formed and pairwise distinct in name across both
\* groups is accepted.
C15_UniqueNames ==
    /\ configCall.op = "HeadersConfig.Validate" =>
         (configCall.err = NoError <=> DistinctWellFormed(configCall.headers))
    /\ configCall.op = "OpenAPIConfig.Validate" =>
         (configCall.err = NoError <=>
              DistinctWellFormed(configCall.headers \o configCall.authHeaders))

\* two groups, each valid on its own, that share a name were rejected
C15_Witness ==
    /\ configCall.op = "OpenAPIConfig.Validate"
    /\ configCall.headers = <<Directive(NameXClient, ValUserAgent, <<>>)>>
    /\ configCall.authHeaders = <<Directive(NameUserAgent, ValUserAgent, <<>>),
                                  Directive(NameXClient, <<>>, ExprClientId)>>
    /\ configCall.err = ErrfDuplicateBetween \o NameXClient

\* the pairs of a general group and an authentication group of a
\* configuration handed to Config.Validate: none, valid ones, a name twice
\* in a group, a name in both groups, a directive without a name
ValidatedGroupPairs ==
    {<<<<>>, <<>>>>,
     <<<<Directive(NameXClient, ValUserAgent, <<>>)>>,
       <<Directive(NameAuthorization, <<>>, ExprClientId)>>>>,
     <<<<Directive(NameXClient, ValUserAgent, <<>>),
         Directive(NameXClient, <<>>, ExprClientId)>>, <<>>>>,
     <<<<Directive(NameXClient, ValUserAgent, <<>>)>>,
       <<Directive(NameXClient, <<>>, ExprClientId)>>>>,
     <<<<>>, <<Directive(<<>>, ValUserAgent, <<>>)>>>>}

\* the configurations handed to Config.Validate: Default() with fields set
\* to values inside, at the edge of and outside what the validation accepts
ValidatedConfigs ==
    {[Default EXCEPT !.server.transport = transport, !.server.http.port = port,
                     !.openapi.specPath = specPath, !.openapi.timeout = timeout,
                     !.openapi.maxRetries = maxRetries,
                     !.security.rateLimiting.requestsPerMinute = requestsPerMinute,
                     !.openapi.headers = groups[1], !.openapi.auth.headers = groups[2]] :
        transport \in {TextStdio, TextHttp, TextTcp, <<>>},
        port \in {-1, 0, 1, 8080, 65535, 65536},
        specPath \in {<<>>, SpecPathFile},
        timeout \in {0, 999, Seconds(1), Seconds(30)},
        maxRetries \in {-1, 0, 3},
        requestsPerMinute \in {0, 1, 100},
        groups \in ValidatedGroupPairs}

\* Config.Validate on a configuration built in the program
CallConfigValidate ==
    /\ configCall = NoConfigCall
    /\ \E c \in ValidatedConfigs :
         configCall' = [op |-> "Config.Validate", config |-> c, err |-> ConfigValidate(c)]
    /\ UNCHANGED configFrame

\* the six conditions on the fields in the order of the checks, each with
\* the sentinel error of its check
FieldChecks(c) ==
    <<[ok |-> c.server.transport \in {TextStdio, TextHttp}, err |-> ErrInvalidTransport],
      [ok |-> c.server.http.port >= 1 /\ c.server.http.port <= 65535, err |-> ErrInvalidPort],
      [ok |-> c.openapi.specPath # <<>>, err |-> ErrMissingOpenAPISpec],
      [ok |-> c.openapi.timeout >= 1000, err |-> ErrInvalidTimeout],
      [ok |-> c.openapi.maxRetries >= 0, err |-> ErrInvalidMaxRetries],
      [ok |-> c.security.rateLimiting.requestsPerMinute >= 1, err |-> ErrInvalidRateLimit]>>

\* the positions of the conditions that do not hold
Failing(c) ==
    {i \in 1..6 : ~FieldChecks(c)[i].ok}

\* C16: Config.Validate checks transport, port, spec path, timeout, max
\* retries and rate limit in that order and returns the sentinel error of the
\* first check that fails even when later fields are invalid too; it returns
\* nil iff all six conditions hold and the header directives validate.
C16_ValidateOrder ==
    configCall.op = "Config.Validate" =>
        /\ \A i \in Failing(configCall.config) :
             (\A j \in Failing(configCall.config) : i <= j) =>
                 configCall.err = FieldChecks(configCall.config)[i].err
        /\ configCall.err = NoError <=>
             /\ Failing(configCall.config) = {}
             /\ DistinctWellFormed(configCall.config.openapi.headers
                                   \o configCall.config.openapi.auth.headers)

\* a configuration with a valid transport, an invalid port and an invalid
\* timeout, rate limit and directive was refused for its port
C16_Witness ==
    /\ configCall.op = "Config.Validate"
    /\ configCall.config.server.transport = TextHttp
    /\ configCall.config.server.http.port = 65536
    /\ configCall.config.openapi.timeout = 999
    /\ configCall.config.security.rateLimiting.requestsPerMinute = 0
    /\ configCall.config.openapi.auth.headers = <<Directive(<<>>, ValUserAgent, <<>>)>>
    /\ configCall.err = ErrInvalidPort

\* a decoded value, or the failure to decode it
Read(v) ==
    [ok |-> TRUE, v |-> v]

ReadFail ==
    [ok |-> FALSE, v |-> 0]

\* the milliseconds of a unit of time.ParseDuration
UnitMillis(unit) ==
    IF unit = UnitMs THEN 1
    ELSE IF unit = UnitS THEN 1000
    ELSE IF unit = UnitM THEN 60000
    ELSE 3600000

\* the end (exclusive) of the unit that starts at j: the next digit
UnitEnd(s, j) ==
    IF \E k \in j..(Len(s) - 1) : IsDigit(s[k + 1])
    THEN CHOOSE k \in j..(Len(s) - 1) :
             IsDigit(s[k + 1]) /\ \A l \in j..(k - 1) : ~IsDigit(s[l + 1])
    ELSE Len(s)

\* time.ParseDuration from index i on, d the duration so far: a run of
\* digits and a unit, repeated
RECURSIVE parseDurationFrom(_, _, _)
parseDurationFrom(s, i, d) ==
    IF i >= Len(s) THEN Read(d)
    ELSE IF DigitsEnd(s, i) = i THEN ReadFail
    ELSE IF Slice(s, DigitsEnd(s, i), UnitEnd(s, DigitsEnd(s, i)))
                \notin {UnitMs, UnitS, UnitM, UnitH} THEN ReadFail
    ELSE parseDurationFrom(s, UnitEnd(s, DigitsEnd(s, i)),
             d + Atoi(Slice(s, i, DigitsEnd(s, i)))
                 * UnitMillis(Slice(s, DigitsEnd(s, i), UnitEnd(s, DigitsEnd(s, i)))))

\* time.ParseDuration of unsigned whole numbers with the units ms, s, m, h
ParseDuration(s) ==
    IF s = <<"0">> THEN Read(0)
    ELSE IF s = <<>> THEN ReadFail
    ELSE parseDurationFrom(s, 0, 0)

\* the member of a mapping, Absent when the node is no mapping or has none
Member(node, key) ==
    IF node.t = "object" /\ key \in DOMAIN node.m THEN node.m[key] ELSE Absent

\* a node a struct can be decoded from: a mapping, or nothing
IsSection(node) ==
    node.t \in {"absent", "null", "object"}

\* a string field
decodeString(format, node) ==
    IF node.t \in {"absent", "null"} THEN Read(<<>>)
    ELSE IF node.t = "string" THEN Read(node.s)
    ELSE IF format = "yaml" /\ node.t \in {"number", "bool"} THEN Read(SprintV(node))
    ELSE ReadFail

\* an int field
decodeInt(node) ==
    IF node.t \in {"absent", "null"} THEN Read(0)
    ELSE IF node.t = "number" THEN Read(node.n)
    ELSE ReadFail

\* a bool field
decodeBool(node) ==
    IF node.t \in {"absent", "null"} THEN Read(FALSE)
    ELSE IF node.t = "bool" THEN Read(node.b)
    ELSE ReadFail

\* a time.Duration field: a string that time.ParseDuration accepts; the JSON
\* decoders of HTTPConfig and OpenAPIConfig skip the empty string
decodeDuration(format, node) ==
    IF node.t \in {"absent", "null"} THEN Read(0)
    ELSE IF node.t # "string" THEN ReadFail
    ELSE IF format = "json" /\ node.s = <<>> THEN Read(0)
    ELSE ParseDuration(node.s)

\* a []string field
decodeStrings(node) ==
    IF node.t \in {"absent", "null"} THEN Read(<<>>)
    ELSE IF node.t # "array" THEN ReadFail
    ELSE IF \E i \in 1..Len(node.e) : node.e[i].t # "string" THEN ReadFail
    ELSE Read([i \in 1..Len(node.e) |-> node.e[i].s])

\* the nodes of the sections of a document
ServerNode(doc) ==
    Member(doc, KeyServer)

HttpNode(doc) ==
    Member(ServerNode(doc), KeyHttp)

CorsNode(doc) ==
    Member(HttpNode(doc), KeyCors)

LoggingNode(doc) ==
    Member(doc, KeyLogging)

OpenapiNode(doc) ==
    Member(doc, KeyOpenapi)

AuthNode(doc) ==
    Member(OpenapiNode(doc), KeyAuth)

SecurityNode(doc) ==
    Member(doc, KeySecurity)

RateLimitingNode(doc) ==
    Member(SecurityNode(doc), KeyRateLimiting)

\* the fields of Config that a document sets and the merge looks at
ScalarFields ==
    {"transport", "host", "port", "sessionTimeout", "maxConnections", "corsEnabled",
     "corsOrigins", "level", "format", "output", "specPath", "baseURL", "timeout",
     "maxRetries", "authType", "rateLimitingEnabled", "requestsPerMinute",
     "requestSizeLimit"}

\* the node of the document that spells a field
FieldNode(doc, field) ==
    CASE field = "transport" -> Member(ServerNode(doc), KeyTransport)
      [] field = "host" -> Member(HttpNode(doc), KeyHost)
      [] field = "port" -> Member(HttpNode(doc), KeyPort)
      [] field = "sessionTimeout" -> Member(HttpNode(doc), KeySessionTimeout)
      [] field = "maxConnections" -> Member(HttpNode(doc), KeyMaxConnections)
      [] field = "corsEnabled" -> Member(CorsNode(doc), KeyEnabled)
      [] field = "corsOrigins" -> Member(CorsNode(doc), KeyOrigins)
      [] field = "level" -> Member(LoggingNode(doc), KeyLevel)
      [] field = "format" -> Member(LoggingNode(doc), KeyFormat)
      [] field = "output" -> Member(LoggingNode(doc), KeyOutput)
      [] field = "specPath" -> Member(OpenapiNode(doc), KeySpecPath)
      [] field = "baseURL" -> Member(OpenapiNode(doc), KeyBaseUrl)
      [] field = "timeout" -> Member(OpenapiNode(doc), KeyTimeout)
      [] field = "maxRetries" -> Member(OpenapiNode(doc), KeyMaxRetries)
      [] field = "authType" -> Member(AuthNode(doc), KeyType)
      [] field = "rateLimitingEnabled" -> Member(RateLimitingNode(doc), KeyEnabled)
      [] field = "requestsPerMinute" -> Member(RateLimitingNode(doc), KeyRequestsPerMinute)
      [] field = "requestSizeLimit" -> Member(SecurityNode(doc), KeyRequestSizeLimit)

\* the decoding of a field by its Go type
decodeField(format, field, node) ==
    IF field \in {"port", "maxConnections", "maxRetries", "requestsPerMinute"}
      THEN decodeInt(node)
    ELSE IF field \in {"corsEnabled", "rateLimitingEnabled"} THEN decodeBool(node)
    ELSE IF field \in {"sessionTimeout", "timeout"} THEN decodeDuration(format, node)
    ELSE IF field = "corsOrigins" THEN decodeStrings(node)
    ELSE decodeString(format, node)

\* every field of the document decoded
decodedFields(format, doc) ==
    [field \in ScalarFields |-> decodeField(format, field, FieldNode(doc, field))]

\* the value of a field in a Config
ConfigField(c, field) ==
    CASE field = "transport" -> c.server.transport
      [] field = "host" -> c.server.http.host
      [] field = "port" -> c.server.http.port
      [] field = "sessionTimeout" -> c.server.http.sessionTimeout
      [] field = "maxConnections" -> c.server.http.maxConnections
      [] field = "corsEnabled" -> c.server.http.cors.enabled
      [] field = "corsOrigins" -> c.server.http.cors.origins
      [] field = "level" -> c.logging.level
      [] field = "format" -> c.logging.format
      [] field = "output" -> c.logging.output
      [] field = "specPath" -> c.openapi.specPath
      [] field = "baseURL" -> c.openapi.baseURL
      [] field = "timeout" -> c.openapi.timeout
      [] field = "maxRetries" -> c.openapi.maxRetries
      [] field = "authType" -> c.openapi.auth.type
      [] field = "rateLimitingEnabled" -> c.security.rateLimiting.enabled
      [] field = "requestsPerMinute" -> c.security.rateLimiting.requestsPerMinute
      [] field = "requestSizeLimit" -> c.security.requestSizeLimit

\* the Config the decoders fill from the decoded fields and directive groups
configOf(fields, headers, authHeaders) ==
    [server |-> [transport |-> fields["transport"].v,
                 http |-> [host |-> fields["host"].v, port |-> fields["port"].v,
                           sessionTimeout |-> fields["sessionTimeout"].v,
                           maxConnections |-> fields["maxConnections"].v,
                           cors |-> [enabled |-> fields["corsEnabled"].v,
                                     origins |-> fields["corsOrigins"].v]]],
     logging |-> [level |-> fields["level"].v, format |-> fields["format"].v,
                  output |-> fields["output"].v],
     openapi |-> [ZeroConfig.openapi EXCEPT !.specPath = fields["specPath"].v,
                                            !.baseURL = fields["baseURL"].v,
                                            !.auth.type = fields["authType"].v,
                                            !.auth.headers = authHeaders,
                                            !.headers = headers,
                                            !.timeout = fields["timeout"].v,
                                            !.maxRetries = fields["maxRetries"].v],
     security |-> [rateLimiting |-> [enabled |-> fields["rateLimitingEnabled"].v,
                                     requestsPerMinute |-> fields["requestsPerMinute"].v],
                   requestSizeLimit |-> fields["requestSizeLimit"].v]]

\* a Config, or the error of producing it
ConfigRet(config, err) ==
    [config |-> config, err |-> err]

\* yaml.Unmarshal / json.Unmarshal of the document into a Config, given the
\* decoded fields and the decoded groups
unmarshalConfigOf(doc, fields, headers, authHeaders) ==
    IF \/ ~IsSection(doc)
       \/ \E section \in {ServerNode(doc), HttpNode(doc), CorsNode(doc), LoggingNode(doc),
                          OpenapiNode(doc), AuthNode(doc), SecurityNode(doc),
                          RateLimitingNode(doc)} : ~IsSection(section)
       \/ \E field \in ScalarFields : ~fields[field].ok
      THEN ConfigRet(ZeroConfig, ErrCannotDecode)
    ELSE IF headers.err # NoError THEN ConfigRet(ZeroConfig, headers.err)
    ELSE IF authHeaders.err # NoError THEN ConfigRet(ZeroConfig, authHeaders.err)
    ELSE ConfigRet(configOf(fields, headers.h, authHeaders.h), NoError)

\* a member handed to a decoder of its own: nothing when it is absent
NodeOrNull(node) ==
    IF node.t = "absent" THEN JNull ELSE node

\* yaml.Unmarshal / json.Unmarshal of the document into a Config; order and
\* authOrder are the orders of the ranges over directive maps in the old format
UnmarshalConfig(format, doc, order, authOrder) ==
    unmarshalConfigOf(doc, decodedFields(format, doc),
        UnmarshalHeadersConfig(format, NodeOrNull(Member(OpenapiNode(doc), KeyHeaders)), order),
        UnmarshalHeadersConfig(format, NodeOrNull(Member(AuthNode(doc), KeyHeaders)),
                               authOrder))

\* Loader.mergeWithDefaults
mergeWithDefaults(config) ==
    [config EXCEPT
       !.server.transport = IF @ = <<>> THEN Default.server.transport ELSE @,
       !.server.http.host = IF @ = <<>> THEN Default.server.http.host ELSE @,
       !.server.http.port = IF @ = 0 THEN Default.server.http.port ELSE @,
       !.server.http.sessionTimeout =
           IF @ = 0 THEN Default.server.http.sessionTimeout ELSE @,
       !.server.http.maxConnections =
           IF @ = 0 THEN Default.server.http.maxConnections ELSE @,
       !.server.http.cors.enabled =
           IF Len(config.server.http.cors.origins) = 0
           THEN Default.server.http.cors.enabled ELSE @,
       !.server.http.cors.origins =
           IF Len(@) = 0 THEN Default.server.http.cors.origins ELSE @,
       !.logging.level = IF @ = <<>> THEN Default.logging.level ELSE @,
       !.logging.format = IF @ = <<>> THEN Default.logging.format ELSE @,
       !.logging.output = IF @ = <<>> THEN Default.logging.output ELSE @,
       !.openapi.timeout = IF @ = 0 THEN Default.openapi.timeout ELSE @,
       !.openapi.maxRetries = IF @ = 0 THEN Default.openapi.maxRetries ELSE @,
       !.openapi.auth.type = IF @ = <<>> THEN Default.openapi.auth.type ELSE @,
       !.security.rateLimiting.enabled =
           IF config.security.rateLimiting.requestsPerMinute = 0
           THEN Default.security.rateLimiting.enabled ELSE @,
       !.security.rateLimiting.requestsPerMinute =
           IF @ = 0 THEN Default.security.rateLimiting.requestsPerMinute ELSE @,
       !.security.requestSizeLimit =
           IF @ = <<>> THEN Default.security.requestSizeLimit ELSE @]

\* no --config flag
NoFile ==
    [path |-> "", exists |-> FALSE, ext |-> <<>>, doc |-> JNull]

\* Loader.Load once the file is decoded
loadDecoded(decoded) ==
    IF decoded.err # NoError THEN ConfigRet(Nil, ErrfParseConfig \o decoded.err)
    ELSE ConfigRet(mergeWithDefaults(decoded.config), NoError)

\* Loader.Load of the file the path names
Load(file, order, authOrder) ==
    IF file.path = "" THEN ConfigRet(Default, NoError)
    ELSE IF ~file.exists THEN ConfigRet(Nil, ErrfConfigNotFound)
    ELSE IF file.ext = ExtYaml
      THEN loadDecoded(UnmarshalConfig("yaml", file.doc, order, authOrder))
    ELSE IF file.ext = ExtJson
      THEN loadDecoded(UnmarshalConfig("json", file.doc, order, authOrder))
    ELSE ConfigRet(Nil, ErrfUnsupportedFormat \o file.ext)

\* the mapping of the pairs <<key, node>> whose node is not Absent
Mapping(pairs) ==
    JObj([key \in {pairs[i][1] : i \in {j \in 1..Len(pairs) : pairs[j][2] # Absent}} |->
              pairs[CHOOSE i \in 1..Len(pairs) : pairs[i][1] = key][2]])

\* one item of a list of directives in the new format
HeaderItemNode(directive) ==
    Mapping(<<<<TextHeader, directive>>>>)

\* the server sections of the documents: none; a transport and a port; a
\* port of 0 and a host; cross-origin settings with and without origins;
\* a session timeout with a connection maximum of 0
ServerSections ==
    {Absent,
     Mapping(<<<<KeyTransport, JStr(TextHttp)>>,
               <<KeyHttp, Mapping(<<<<KeyPort, JNum(9000)>>>>)>>>>),
     Mapping(<<<<KeyHttp, Mapping(<<<<KeyPort, JNum(0)>>, <<KeyHost, JStr(HostAny)>>>>)>>>>),
     Mapping(<<<<KeyHttp, Mapping(<<<<KeyCors,
                 Mapping(<<<<KeyEnabled, JBool(FALSE)>>>>)>>>>)>>>>),
     Mapping(<<<<KeyHttp, Mapping(<<<<KeyCors,
                 Mapping(<<<<KeyOrigins, JArr(<<JStr(OriginExample)>>)>>>>)>>>>)>>>>),
     Mapping(<<<<KeyHttp, Mapping(<<<<KeyCors,
                 Mapping(<<<<KeyEnabled, JBool(FALSE)>>,
                           <<KeyOrigins, JArr(<<JStr(OriginExample)>>)>>>>)>>>>)>>>>),
     Mapping(<<<<KeyHttp, Mapping(<<<<KeySessionTimeout, JStr(Text10m)>>,
                                     <<KeyMaxConnections, JNum(0)>>>>)>>>>)}

LoggingSections ==
    {Absent, Mapping(<<<<KeyLevel, JStr(LevelDebug)>>>>)}

\* the openapi sections: none; the spec path and base URL; a timeout and a
\* retry maximum; a timeout of zero; a retry maximum of 0; timeouts that do
\* not decode; directive groups in the new format, valid and not; a group in
\* the old format
OpenapiSections ==
    {Absent,
     Mapping(<<<<KeySpecPath, JStr(SpecPathFile)>>, <<KeyBaseUrl, JStr(BaseURLConfigured)>>>>),
     Mapping(<<<<KeyTimeout, JStr(Text45s)>>, <<KeyMaxRetries, JNum(5)>>>>),
     Mapping(<<<<KeyTimeout, JStr(Text1m30s)>>, <<KeyMaxRetries, JNum(0)>>>>),
     Mapping(<<<<KeyTimeout, JStr(Text0s)>>>>),
     Mapping(<<<<KeyTimeout, JStr(TextSoon)>>>>),
     Mapping(<<<<KeyTimeout, JNum(5)>>>>),
     Mapping(<<<<KeyHeaders,
                 JArr(<<HeaderItemNode(DirectiveNode(JStr(NameXClient), JStr(ValUserAgent),
                                                     Absent))>>)>>,
               <<KeyAuth,
                 Mapping(<<<<KeyType, JStr(TextBearerType)>>,
                           <<KeyHeaders,
                             JArr(<<HeaderItemNode(DirectiveNode(JStr(NameAuthorization),
                                                                 Absent,
                                                                 JStr(ExprClientId)))>>)>>>>)>>>>),
     Mapping(<<<<KeyHeaders,
                 JArr(<<HeaderItemNode(DirectiveNode(JStr(NameXClient), JStr(ValUserAgent),
                                                     JStr(ExprClientId)))>>)>>>>),
     Mapping(<<<<KeyHeaders,
                 Mapping(<<<<NameXClient, JStr(ValUserAgent)>>,
                           <<NameUserAgent, JStr(ValUserAgent)>>>>)>>>>)}

\* the security sections: none; the rate limit switched off, with and
\* without a rate; a rate alone; a rate of 0 with a size limit
SecuritySections ==
    {Absent,
     Mapping(<<<<KeyRateLimiting, Mapping(<<<<KeyEnabled, JBool(FALSE)>>>>)>>>>),
     Mapping(<<<<KeyRateLimiting, Mapping(<<<<KeyRequestsPerMinute, JNum(50)>>>>)>>>>),
     Mapping(<<<<KeyRateLimiting, Mapping(<<<<KeyEnabled, JBool(FALSE)>>,
                                             <<KeyRequestsPerMinute, JNum(50)>>>>)>>>>),
     Mapping(<<<<KeyRateLimiting, Mapping(<<<<KeyRequestsPerMinute, JNum(0)>>>>)>>,
               <<KeyRequestSizeLimit, JStr(SizeLimit2MB)>>>>)}

\* the documents of the configuration files
ConfigDocuments ==
    {Mapping(<<<<KeyServer, server>>, <<KeyLogging, logging>>, <<KeyOpenapi, openapi>>,
               <<KeySecurity, security>>>>) :
        server \in ServerSections, logging \in LoggingSections,
        openapi \in OpenapiSections, security \in SecuritySections}

\* the files --config can name: one that does not exist, one in a format
\* that is not supported, and the documents in YAML and in JSON
ConfigFiles ==
    {[path |-> "config", exists |-> FALSE, ext |-> ExtYaml, doc |-> JNull],
     [path |-> "config", exists |-> TRUE, ext |-> ExtTxt, doc |-> JNull]}
    \cup {[path |-> "config", exists |-> TRUE, ext |-> ext, doc |-> doc] :
            ext \in {ExtYaml, ExtJson}, doc \in ConfigDocuments}

\* the keys of a directive group in the old format, none otherwise
LegacyKeys(node) ==
    IF node.t = "object" THEN DOMAIN node.m ELSE {}

\* Loader.Load
CallLoad ==
    /\ configCall = NoConfigCall
    /\ \E file \in ConfigFiles \cup {NoFile} :
         \E order \in Orders(LegacyKeys(Member(OpenapiNode(file.doc), KeyHeaders))),
            authOrder \in Orders(LegacyKeys(Member(AuthNode(file.doc), KeyHeaders))) :
             configCall' = [op |-> "Load", file |-> file,
                            config |-> Load(file, order, authOrder).config,
                            err |-> Load(file, order, authOrder).err]
    /\ UNCHANGED configFrame

\* the document provides the field: it has the member, and not as null
Provided(doc, field) ==
    FieldNode(doc, field).t \notin {"absent", "null"}

\* the format a file is decoded in
FormatOf(file) ==
    IF file.ext = ExtYaml THEN "yaml" ELSE "json"

\* the value the document gives the field
ProvidedValue(file, field) ==
    decodeField(FormatOf(file), field, FieldNode(file.doc, field)).v

\* the zero value of the Go type of a field
IsZeroValue(field, v) ==
    IF field \in {"port", "maxConnections", "maxRetries", "requestsPerMinute",
                  "sessionTimeout", "timeout"} THEN v = 0
    ELSE IF field \in {"corsEnabled", "rateLimitingEnabled"} THEN v = FALSE
    ELSE v = <<>>

\* a file was loaded
Loaded ==
    /\ configCall.op = "Load"
    /\ configCall.file.path # ""
    /\ configCall.err = NoError

\* C17: in the configuration Load returns, every value the configuration
\* file provides is preserved unchanged and every field it does not provide
\* has its Default() value.
C17_MergePreservesProvided ==
    Loaded =>
        \A field \in ScalarFields :
            ConfigField(configCall.config, field) =
                IF Provided(configCall.file.doc, field)
                THEN ProvidedValue(configCall.file, field)
                ELSE ConfigField(Default, field)

\* C17, the part that holds: a provided value that is not the zero value of
\* its type is preserved when it is not one of the two switches, and a field
\* whose whole section is missing has its Default() value.
C17_NonZeroPreserved ==
    Loaded =>
        \A field \in ScalarFields :
            /\ (/\ Provided(configCall.file.doc, field)
                /\ field \notin {"corsEnabled", "rateLimitingEnabled"}
                /\ ~IsZeroValue(field, ProvidedValue(configCall.file, field)))
               => ConfigField(configCall.config, field) = ProvidedValue(configCall.file, field)
            /\ configCall.file.doc = JObj(EmptyMap)
               => ConfigField(configCall.config, field) = ConfigField(Default, field)

\* a JSON file that sets max_retries to 0 and the rate limit off was loaded
\* with 3 retries and the rate limit on
C17_Witness ==
    /\ Loaded
    /\ configCall.file.ext = ExtJson
    /\ FieldNode(configCall.file.doc, "maxRetries") = JNum(0)
    /\ FieldNode(configCall.file.doc, "rateLimitingEnabled") = JBool(FALSE)
    /\ configCall.config.openapi.maxRetries = 3
    /\ configCall.config.security.rateLimiting.enabled

\* the prefixes extractBaseURLFromSpec looks for
SchemeHttp ==
    <<"h", "t", "t", "p", ":", "/", "/">>

SchemeHttps ==
    <<"h", "t", "t", "p", "s", ":", "/", "/">>

TextSchemeSep ==
    <<":", "/", "/">>

TextHttps ==
    <<"h", "t", "t", "p", "s">>

\* the default ports
Port80 ==
    <<"8", "0">>

Port443 ==
    <<"4", "4", "3">>

\* more spec paths
SpecPathUrlHttps80 ==
    <<"h", "t", "t", "p", "s", ":", "/", "/", "a", "p", "i", ".", "e", "x",
      "a", "m", "p", "l", "e", ".", "c", "o", "m", ":", "8", "0", "/", "s",
      "p", "e", "c">>

SpecPathUrlBadPort ==
    <<"h", "t", "t", "p", ":", "/", "/", "a", "p", "i", ".", "e", "x", "a",
      "m", "p", "l", "e", ".", "c", "o", "m", ":", "p", "o", "r", "t", "/",
      "s", "p", "e", "c">>

SpecPathUrlNoPath ==
    <<"h", "t", "t", "p", ":", "/", "/", "l", "o", "c", "a", "l", "h", "o",
      "s", "t", ":", "9", "0", "9", "0">>

SpecPathFtp ==
    <<"f", "t", "p", ":", "/", "/", "f", "i", "l", "e", "s", ".", "e", "x",
      "a", "m", "p", "l", "e", ".", "c", "o", "m", "/", "s", "p", "e", "c",
      ".", "y", "a", "m", "l">>

\* log.Printf of main
WarnTransport ==
    <<"W", "A", "R", "N", "I", "N", "G", ":", " ", "O", "v", "e", "r", "r",
      "i", "d", "i", "n", "g", " ", "c", "o", "n", "f", "i", "g", " ", "t",
      "r", "a", "n", "s", "p", "o", "r", "t", " ", "'">>

WarnHost ==
    <<"W", "A", "R", "N", "I", "N", "G", ":", " ", "O", "v", "e", "r", "r",
      "i", "d", "i", "n", "g", " ", "c", "o", "n", "f", "i", "g", " ", "h",
      "o", "s", "t", " ", "'">>

WarnPort ==
    <<"W", "A", "R", "N", "I", "N", "G", ":", " ", "O", "v", "e", "r", "r",
      "i", "d", "i", "n", "g", " ", "c", "o", "n", "f", "i", "g", " ", "p",
      "o", "r", "t", " ">>

WarnSpecPath ==
    <<"W", "A", "R", "N", "I", "N", "G", ":", " ", "O", "v", "e", "r", "r",
      "i", "d", "i", "n", "g", " ", "c", "o", "n", "f", "i", "g", " ", "s",
      "p", "e", "c", "_", "p", "a", "t", "h", " ", "'">>

WarnBaseURL ==
    <<"W", "A", "R", "N", "I", "N", "G", ":", " ", "O", "v", "e", "r", "r",
      "i", "d", "i", "n", "g", " ", "c", "o", "n", "f", "i", "g", " ", "b",
      "a", "s", "e", "_", "u", "r", "l", " ", "'">>

WarnWithValueQuoted ==
    <<"'", " ", "w", "i", "t", "h", " ", "c", "o", "m", "m", "a", "n", "d",
      " ", "l", "i", "n", "e", " ", "v", "a", "l", "u", "e", " ", "'">>

WarnWithValue ==
    <<" ", "w", "i", "t", "h", " ", "c", "o", "m", "m", "a", "n", "d", " ",
      "l", "i", "n", "e", " ", "v", "a", "l", "u", "e", " ">>

LogExtracted ==
    <<"U", "s", "i", "n", "g", " ", "b", "a", "s", "e", " ", "U", "R", "L",
      " ", "e", "x", "t", "r", "a", "c", "t", "e", "d", " ", "f", "r", "o",
      "m", " ", "s", "p", "e", "c", ":", " ">>

\* log.Fatalf of main
FatalLoad ==
    <<"F", "a", "i", "l", "e", "d", " ", "t", "o", " ", "l", "o", "a", "d",
      " ", "c", "o", "n", "f", "i", "g", "u", "r", "a", "t", "i", "o", "n",
      ":", " ">>

FatalValidation ==
    <<"C", "o", "n", "f", "i", "g", "u", "r", "a", "t", "i", "o", "n", " ",
      "v", "a", "l", "i", "d", "a", "t", "i", "o", "n", " ", "f", "a", "i",
      "l", "e", "d", ":", " ">>

\* a parsed URL, or the failure of url.Parse
URLParsed(scheme, hostname, port) ==
    [ok |-> TRUE, scheme |-> scheme, hostname |-> hostname, port |-> port]

URLFail ==
    [ok |-> FALSE, scheme |-> <<>>, hostname |-> <<>>, port |-> <<>>]

\* the end (exclusive) of the authority that starts at i: the next "/"
AuthorityEnd(s, i) ==
    IF IndexByteFrom(s, "/", i) = -1 THEN Len(s) ELSE IndexByteFrom(s, "/", i)

\* the index of the last ":" of a host, -1 when it has none
LastColon(host) ==
    IF \E i \in 0..(Len(host) - 1) : host[i + 1] = ":"
    THEN CHOOSE i \in 0..(Len(host) - 1) :
             host[i + 1] = ":" /\ \A j \in (i + 1)..(Len(host) - 1) : host[j + 1] # ":"
    ELSE -1

\* the scheme, Hostname() and Port() of a host with a scheme: the port is
\* what follows the last colon and has to be digits
urlOfHost(scheme, host, colon) ==
    IF colon = -1 THEN URLParsed(scheme, host, <<>>)
    ELSE IF DigitsEnd(host, colon + 1) # Len(host) THEN URLFail
    ELSE URLParsed(scheme, Slice(host, 0, colon), SliceFrom(host, colon + 1))

\* url.Parse of scheme://host[:port][/path]
urlParseAt(s, sep) ==
    urlOfHost(Slice(s, 0, sep), Slice(s, sep + 3, AuthorityEnd(s, sep + 3)),
              LastColon(Slice(s, sep + 3, AuthorityEnd(s, sep + 3))))

\* the base URL of a parsed spec URL: the port only when it is not the
\* default port of the scheme
baseURLOfParsed(parsedURL) ==
    IF ~parsedURL.ok THEN <<>>
    ELSE IF /\ parsedURL.port # <<>>
            /\ \/ parsedURL.scheme = TextHttp /\ parsedURL.port # Port80
               \/ parsedURL.scheme = TextHttps /\ parsedURL.port # Port443
      THEN parsedURL.scheme \o TextSchemeSep \o parsedURL.hostname \o <<":">> \o parsedURL.port
    ELSE parsedURL.scheme \o TextSchemeSep \o parsedURL.hostname

\* a base URL that always carries the port of the spec URL
extractBaseURLWithPort(specPath) ==
    IF ~HasPrefix(specPath, SchemeHttp) /\ ~HasPrefix(specPath, SchemeHttps) THEN <<>>
    ELSE IF ~urlParseAt(specPath, Index(specPath, TextSchemeSep)).ok THEN <<>>
    ELSE Slice(specPath, 0, AuthorityEnd(specPath, Index(specPath, TextSchemeSep) + 3))

\* extractBaseURLFromSpec
extractBaseURLFromSpec(specPath) ==
    IF ~HasPrefix(specPath, SchemeHttp) /\ ~HasPrefix(specPath, SchemeHttps) THEN <<>>
    ELSE baseURLOfParsed(urlParseAt(specPath, Index(specPath, TextSchemeSep)))

\* the command line of main: the flags as flag.Parse leaves them, and the
\* file --config names
Flags(transport, host, port, specPath, baseURL, debug) ==
    [transport |-> transport, host |-> host, port |-> port, specPath |-> specPath,
     baseURL |-> baseURL, debug |-> debug]

\* a step of main: the configuration and the lines logged so far
MainStep(cfg, lines) ==
    [cfg |-> cfg, log |-> lines]

\* main, the overrides of the text flags: the flag replaces the configured
\* value, with a warning when that one is not empty and differs
overrideTransport(step, flags) ==
    IF flags.transport = <<>> THEN step
    ELSE MainStep([step.cfg EXCEPT !.server.transport = flags.transport],
                  IF step.cfg.server.transport # <<>>
                     /\ step.cfg.server.transport # flags.transport
                  THEN Append(step.log, WarnTransport \o step.cfg.server.transport
                                        \o WarnWithValueQuoted \o flags.transport \o <<"'">>)
                  ELSE step.log)

overrideHost(step, flags) ==
    IF flags.host = <<>> THEN step
    ELSE MainStep([step.cfg EXCEPT !.server.http.host = flags.host],
                  IF step.cfg.server.http.host # <<>> /\ step.cfg.server.http.host # flags.host
                  THEN Append(step.log, WarnHost \o step.cfg.server.http.host
                                        \o WarnWithValueQuoted \o flags.host \o <<"'">>)
                  ELSE step.log)

overridePort(step, flags) ==
    IF flags.port = 0 THEN step
    ELSE MainStep([step.cfg EXCEPT !.server.http.port = flags.port],
                  IF step.cfg.server.http.port # 0 /\ step.cfg.server.http.port # flags.port
                  THEN Append(step.log, WarnPort \o Itoa(step.cfg.server.http.port)
                                        \o WarnWithValue \o Itoa(flags.port))
                  ELSE step.log)

overrideSpecPath(step, flags) ==
    IF flags.specPath = <<>> THEN step
    ELSE MainStep([step.cfg EXCEPT !.openapi.specPath = flags.specPath],
                  IF step.cfg.openapi.specPath # <<>>
                     /\ step.cfg.openapi.specPath # flags.specPath
                  THEN Append(step.log, WarnSpecPath \o step.cfg.openapi.specPath
                                        \o WarnWithValueQuoted \o flags.specPath \o <<"'">>)
                  ELSE step.log)

overrideBaseURL(step, flags) ==
    IF flags.baseURL = <<>> THEN step
    ELSE MainStep([step.cfg EXCEPT !.openapi.baseURL = flags.baseURL],
                  IF step.cfg.openapi.baseURL # <<>>
                     /\ step.cfg.openapi.baseURL # flags.baseURL
                  THEN Append(step.log, WarnBaseURL \o step.cfg.openapi.baseURL
                                        \o WarnWithValueQuoted \o flags.baseURL \o <<"'">>)
                  ELSE step.log)

overrideDebug(step, flags) ==
    IF flags.debug THEN MainStep([step.cfg EXCEPT !.openapi.debug = TRUE], step.log)
    ELSE step

\* main, the default of the base URL: the one of the spec URL when none is
\* set and the spec path gives one
defaultBaseURL(step) ==
    IF /\ step.cfg.openapi.baseURL = <<>>
       /\ step.cfg.openapi.specPath # <<>>
       /\ extractBaseURLFromSpec(step.cfg.openapi.specPath) # <<>>
    THEN MainStep([step.cfg EXCEPT
                     !.openapi.baseURL = extractBaseURLFromSpec(step.cfg.openapi.specPath)],
                  Append(step.log,
                         LogExtracted \o extractBaseURLFromSpec(step.cfg.openapi.specPath)))
    ELSE step

\* main from the overrides to the default of the base URL
overridden(cfg, flags) ==
    defaultBaseURL(
        overrideDebug(
            overrideBaseURL(
                overrideSpecPath(
                    overridePort(
                        overrideHost(
                            overrideTransport(MainStep(cfg, <<>>), flags), flags), flags),
                    flags), flags), flags))

\* what main has done when it exits or goes on to build the server
MainRet(exit, cfg, lines) ==
    [exit |-> exit, cfg |-> cfg, log |-> lines]

\* main once the configuration is final: it is validated
mainValidated(step, err) ==
    IF err # NoError
    THEN MainRet("validation failed", step.cfg, Append(step.log, FatalValidation \o err))
    ELSE MainRet("configured", step.cfg, step.log)

\* main once the configuration is loaded
mainLoaded(loaded, flags) ==
    IF loaded.err # NoError
    THEN MainRet("load failed", Nil, <<FatalLoad \o loaded.err>>)
    ELSE mainValidated(overridden(loaded.config, flags),
                       ConfigValidate(overridden(loaded.config, flags).cfg))

\* the base URLs of the spec URLs
BaseLocalhost8080 ==
    <<"h", "t", "t", "p", ":", "/", "/", "l", "o", "c", "a", "l", "h", "o",
      "s", "t", ":", "8", "0", "8", "0">>

BaseLocalhost9090 ==
    <<"h", "t", "t", "p", ":", "/", "/", "l", "o", "c", "a", "l", "h", "o",
      "s", "t", ":", "9", "0", "9", "0">>

BaseApiExampleHttps ==
    <<"h", "t", "t", "p", "s", ":", "/", "/", "a", "p", "i", ".", "e", "x",
      "a", "m", "p", "l", "e", ".", "c", "o", "m">>

BaseApiExampleHttp ==
    <<"h", "t", "t", "p", ":", "/", "/", "a", "p", "i", ".", "e", "x", "a",
      "m", "p", "l", "e", ".", "c", "o", "m">>

BaseApiExampleHttps80 ==
    <<"h", "t", "t", "p", "s", ":", "/", "/", "a", "p", "i", ".", "e", "x",
      "a", "m", "p", "l", "e", ".", "c", "o", "m", ":", "8", "0">>

\* the spec paths of the command line and of the files
SpecPaths ==
    {SpecPathFile, SpecPathUrl, SpecPathUrlDefaultPort, SpecPathUrlNoPort, SpecPathUrlHttp80,
     SpecPathUrlHttps80, SpecPathUrlBadPort, SpecPathUrlNoPath, SpecPathFtp}

\* the command lines of main
CommandLines ==
    {Flags(transport, <<>>, port, specPath, baseURL, FALSE) :
        transport \in {<<>>, TextHttp}, port \in {0, 9000},
        specPath \in SpecPaths \cup {<<>>},
        baseURL \in {<<>>, BaseURLFlag, BaseURLConfigured}}
    \cup {Flags(TextStdio, HostAny, 8080, <<>>, <<>>, TRUE)}

\* the files of the command lines: none, one that does not exist, and
\* documents with and without a spec path and a base URL
MainFiles ==
    {NoFile, [path |-> "config", exists |-> FALSE, ext |-> ExtYaml, doc |-> JNull]}
    \cup {[path |-> "config", exists |-> TRUE, ext |-> ext, doc |-> doc] :
            ext \in {ExtYaml, ExtJson},
            doc \in {Mapping(<<<<KeyOpenapi,
                                 Mapping(<<<<KeySpecPath, JStr(SpecPathFile)>>,
                                           <<KeyBaseUrl, JStr(BaseURLConfigured)>>>>)>>>>),
                     Mapping(<<<<KeyOpenapi,
                                 Mapping(<<<<KeySpecPath, JStr(SpecPathUrl)>>>>)>>>>),
                     Mapping(<<<<KeyServer,
                                 Mapping(<<<<KeyTransport, JStr(TextHttp)>>,
                                           <<KeyHttp, Mapping(<<<<KeyPort, JNum(9000)>>,
                                                                <<KeyHost, JStr(HostLoopback)>>>>)>>>>)>>,
                               <<KeyOpenapi,
                                 Mapping(<<<<KeyBaseUrl, JStr(BaseURLConfigured)>>>>)>>>>)}}

\* main, from flag.Parse to the validation of the final configuration
Main ==
    /\ configCall = NoConfigCall
    /\ \E flags \in CommandLines, file \in MainFiles :
         configCall' = [op |-> "main", flags |-> flags, file |-> file,
                        loaded |-> Load(file, <<>>, <<>>).config,
                        exit |-> mainLoaded(Load(file, <<>>, <<>>), flags).exit,
                        config |-> mainLoaded(Load(file, <<>>, <<>>), flags).cfg,
                        log |-> mainLoaded(Load(file, <<>>, <<>>), flags).log]
    /\ UNCHANGED configFrame

\* the headers sections in the old format: up to two entries whose names and
\* values are empty or not; a value that reads like an expression; a number
LegacyMaps ==
    UNION {[names -> {JStr(ValUserAgent), JStr(ExprClientId), JStr(<<>>), JNum(7)}] :
               names \in {{}, {NameXClient}, {NameUserAgent}, {<<>>},
                          {NameXClient, NameUserAgent}, {NameXClient, <<>>}}}

\* the section in the new format that spells one literal directive per entry
StructuredList(entries, order) ==
    JArr([i \in 1..Len(order) |->
              HeaderItemNode(DirectiveNode(JStr(order[i]), entries[order[i]], Absent))])

\* what the two forms of a section decode to and resolve to
LegacyCall(format, entries, legacy, structured) ==
    [op |-> "HeadersConfig.Unmarshal", format |-> format, entries |-> entries,
     legacy |-> legacy, structured |-> structured,
     legacyResolved |-> EvaluateHeaders(legacy.h, EmptyContext).result,
     structuredResolved |-> EvaluateHeaders(structured.h, EmptyContext).result]

\* yaml.Unmarshal / json.Unmarshal of a headers section in the old format
\* and of the section in the new format with the same entries, each followed
\* by EvaluateHeaders
CallUnmarshalHeadersConfig ==
    /\ configCall = NoConfigCall
    /\ \E format \in Formats, entries \in LegacyMaps :
         \E order \in Orders(DOMAIN entries), listOrder \in Orders(DOMAIN entries) :
             configCall' = LegacyCall(format, entries,
                               UnmarshalHeadersConfig(format, JObj(entries), order),
                               UnmarshalHeadersConfig(format,
                                                      StructuredList(entries, listOrder),
                                                      <<>>))
    /\ UNCHANGED configFrame

ConfigNext ==
    \/ CallHeaderConfigValidate
    \/ CallUnmarshalHeaderConfig
    \/ CallHeadersConfigValidate
    \/ CallOpenAPIConfigValidate
    \/ CallConfigValidate
    \/ CallLoad
    \/ CallUnmarshalHeadersConfig
    \/ Main

ConfigSpec ==
    Init /\ [][ConfigNext]_vars

\* scheme://host of the spec paths that are http or https URLs, with the
\* port only when it is not the default of the scheme; empty for the others
BaseOfSpecPath(specPath) ==
    CASE specPath = SpecPathUrl -> BaseLocalhost8080
      [] specPath = SpecPathUrlNoPath -> BaseLocalhost9090
      [] specPath = SpecPathUrlDefaultPort -> BaseApiExampleHttps
      [] specPath = SpecPathUrlNoPort -> BaseApiExampleHttps
      [] specPath = SpecPathUrlHttp80 -> BaseApiExampleHttp
      [] specPath = SpecPathUrlHttps80 -> BaseApiExampleHttps80
      [] OTHER -> <<>>

\* main got past Load
MainLoaded ==
    /\ configCall.op = "main"
    /\ configCall.exit # "load failed"

\* the log has a warning about the base URL
WarnedBaseURL ==
    \E i \in 1..Len(configCall.log) : HasPrefix(configCall.log[i], WarnBaseURL)

\* C18: the effective base URL at startup is the --base-url flag if given,
\* otherwise the configured base_url if not empty, otherwise scheme://host
\* (with the port only when it is not the default of the scheme) of the spec
\* path when that is an http or https URL, otherwise empty; a warning is
\* logged iff the flag and the configured value are both non-empty and differ.
C18_BaseURLPrecedence ==
    MainLoaded =>
        /\ configCall.config.openapi.baseURL =
             IF configCall.flags.baseURL # <<>> THEN configCall.flags.baseURL
             ELSE IF configCall.loaded.openapi.baseURL # <<>>
               THEN configCall.loaded.openapi.baseURL
             ELSE BaseOfSpecPath(configCall.config.openapi.specPath)
        /\ WarnedBaseURL <=>
             /\ configCall.flags.baseURL # <<>>
             /\ configCall.loaded.openapi.baseURL # <<>>
             /\ configCall.flags.baseURL # configCall.loaded.openapi.baseURL

\* without a flag and a configured base URL, the spec URL of the command
\* line with the default port of https gave the base URL without the port
C18_Witness ==
    /\ MainLoaded
    /\ configCall.flags.baseURL = <<>>
    /\ configCall.loaded.openapi.baseURL = <<>>
    /\ configCall.flags.specPath = SpecPathUrlDefaultPort
    /\ configCall.config.openapi.baseURL = BaseApiExampleHttps
    /\ ~WarnedBaseURL

(***************************************************************************)
(* The sessions of the streamable HTTP transport.  The table maps a token  *)
(* to the session it names; a connection handles one request at a time:    *)
(* it takes the lock of the table and counts the sessions, then looks its  *)
(* session up or creates one and releases the lock, then runs the request  *)
(* through the protocol engine without the lock.  Tokens are numbered in   *)
(* the order they are issued; 0 stands for a request that presents none.   *)
(* Time is counted in ticks of the clock.                                  *)
(***************************************************************************)

\* the last tick of the clock
MaxClock ==
    3

\* the most tokens the transport issues
MaxTokens ==
    2

\* a token the transport never issues
ForgedToken ==
    MaxTokens + 1

\* the session timeouts and session maxima the transport is configured with
SessionTimeouts ==
    {1, 2}

SessionMaxima ==
    {1, 2}

\* a Session
Session(id, createdAt, lastSeen) ==
    [id |-> id, createdAt |-> createdAt, lastSeen |-> lastSeen, active |-> TRUE]

\* a session that is never taken for expired
ExpiredNever(session, now, timeout) ==
    FALSE

\* the session has been idle for longer than the timeout
Expired(session, now, timeout) ==
    now - session.lastSeen > timeout

\* the token names a session of the table that is not expired
Usable(table, token, now, timeout) ==
    /\ token \in DOMAIN table
    /\ ~Expired(table[token], now, timeout)

\* the table with the session of the token created or replaced
WithSession(table, token, session) ==
    [t \in DOMAIN table \cup {token} |-> IF t = token THEN session ELSE table[t]]

\* the table without the sessions of the tokens
Without(table, tokens) ==
    [t \in DOMAIN table \ tokens |-> table[t]]

\* a lock that every connection may take at any time
LockIgnored(lock) ==
    TRUE

\* the lock of the table can be taken
LockFree(lock) ==
    lock = ""

\* a connection whose request is with the protocol engine, under the token
\* of its session
Handling(token) ==
    [pc |-> "handling", token |-> token, wellFormed |-> TRUE, seen |-> 0, reply |-> "none"]

\* a connection whose request is answered
Replied(token, reply) ==
    [pc |-> "replied", token |-> token, wellFormed |-> TRUE, seen |-> 0, reply |-> reply]

\* startHTTPServerWithConfig: the transport starts with the session timeout
\* and the session maximum of the configuration
StartHTTPServer ==
    /\ ~httpConfig.started
    /\ \E timeout \in SessionTimeouts, maximum \in SessionMaxima :
         httpConfig' = [started |-> TRUE, sessionTimeout |-> timeout,
                        maxConnections |-> maximum]
    /\ UNCHANGED <<sessions, clock, issued, tableLock, conns>>
    /\ UNCHANGED sessionFrame

\* the requests of the connections that will create a session
Creating ==
    {c \in Connections : conns[c].pc \in {"arrived", "locked"} /\ conns[c].token = 0}

\* a request arrives on a connection: with no token, with a token issued
\* before or with a forged one, its body well formed or not
HTTPReceive(c) ==
    /\ httpConfig.started
    /\ conns[c].pc \in {"idle", "replied"}
    /\ \E token \in 0..ForgedToken, wellFormed \in BOOLEAN :
         /\ token \in 1..MaxTokens => token <= issued
         /\ token = 0 => issued + Cardinality(Creating) < MaxTokens
         /\ conns' = [conns EXCEPT ![c] = [pc |-> "arrived", token |-> token,
                                           wellFormed |-> wellFormed, seen |-> 0,
                                           reply |-> "none"]]
    /\ UNCHANGED <<httpConfig, sessions, clock, issued, tableLock>>
    /\ UNCHANGED sessionFrame

\* the connection takes the lock of the table and counts the sessions
HTTPLock(c) ==
    /\ conns[c].pc = "arrived"
    /\ LockFree(tableLock)
    /\ tableLock' = c
    /\ conns' = [conns EXCEPT ![c].pc = "locked", ![c].seen = Cardinality(DOMAIN sessions)]
    /\ UNCHANGED <<httpConfig, sessions, clock, issued>>
    /\ UNCHANGED sessionFrame

\* first contact: a session is created under a new token unless the count
\* has reached the maximum, and the lock is released
HTTPCreateSession(c) ==
    /\ conns[c].pc = "locked"
    /\ conns[c].token = 0
    /\ IF conns[c].seen >= httpConfig.maxConnections
       THEN /\ conns' = [conns EXCEPT ![c] = Replied(0, "refused")]
            /\ UNCHANGED <<sessions, issued>>
       ELSE /\ sessions' = WithSession(sessions, issued + 1,
                                       Session(issued + 1, clock, clock))
            /\ issued' = issued + 1
            /\ conns' = [conns EXCEPT ![c] = IF conns[c].wellFormed
                                              THEN Handling(issued + 1)
                                              ELSE Replied(issued + 1, "malformed")]
    /\ tableLock' = ""
    /\ UNCHANGED <<httpConfig, clock>>
    /\ UNCHANGED sessionFrame

\* a request with a token: the session of the token is refreshed when it is
\* in the table and not expired; else the token is an unknown session, and
\* an expired session is evicted; the lock is released
HTTPTouchSession(c) ==
    /\ conns[c].pc = "locked"
    /\ conns[c].token # 0
    /\ IF Usable(sessions, conns[c].token, clock, httpConfig.sessionTimeout)
       THEN /\ sessions' = [sessions EXCEPT ![conns[c].token].lastSeen = clock]
            /\ conns' = [conns EXCEPT ![c] = IF conns[c].wellFormed
                                              THEN Handling(conns[c].token)
                                              ELSE Replied(conns[c].token, "malformed")]
       ELSE /\ sessions' = Without(sessions, {conns[c].token})
            /\ conns' = [conns EXCEPT ![c] = Replied(conns[c].token, "unknown session")]
    /\ tableLock' = ""
    /\ UNCHANGED <<httpConfig, clock, issued>>
    /\ UNCHANGED sessionFrame

\* the request is run through the protocol engine and answered
HTTPServe(c) ==
    /\ conns[c].pc = "handling"
    /\ conns' = [conns EXCEPT ![c] = Replied(conns[c].token, "served")]
    /\ UNCHANGED <<httpConfig, sessions, clock, issued, tableLock>>
    /\ UNCHANGED sessionFrame

\* the reaper evicts the expired sessions, under the lock
ReapSessions ==
    /\ httpConfig.started
    /\ LockFree(tableLock)
    /\ \E t \in DOMAIN sessions : Expired(sessions[t], clock, httpConfig.sessionTimeout)
    /\ sessions' = Without(sessions,
                           {t \in DOMAIN sessions :
                                Expired(sessions[t], clock, httpConfig.sessionTimeout)})
    /\ UNCHANGED <<httpConfig, clock, issued, tableLock, conns>>
    /\ UNCHANGED sessionFrame

\* time passes
Tick ==
    /\ httpConfig.started
    /\ clock < MaxClock
    /\ clock' = clock + 1
    /\ UNCHANGED <<httpConfig, sessions, issued, tableLock, conns>>
    /\ UNCHANGED sessionFrame

SessionNext ==
    \/ StartHTTPServer
    \/ \E c \in Connections : HTTPReceive(c)
    \/ \E c \in Connections : HTTPLock(c)
    \/ \E c \in Connections : HTTPCreateSession(c)
    \/ \E c \in Connections : HTTPTouchSession(c)
    \/ \E c \in Connections : HTTPServe(c)
    \/ ReapSessions
    \/ Tick

SessionSpec ==
    Init /\ [][SessionNext]_vars

\* the connection finishes the look-up of the session its request names
TouchStep(c) ==
    /\ conns[c].pc = "locked"
    /\ conns[c].token # 0
    /\ conns'[c].pc # "locked"

\* the connection finishes the creation of a session or its refusal
CreateStep(c) ==
    /\ conns[c].pc = "locked"
    /\ conns[c].token = 0
    /\ conns'[c].pc # "locked"

\* the session of the token is in the table and was used at most the
\* timeout ago
Live(token) ==
    /\ token \in DOMAIN sessions
    /\ clock - sessions[token].lastSeen <= httpConfig.sessionTimeout

\* the look-up of a request with a token: a live session is refreshed and
\* the request goes on to the engine, or is refused as malformed when its
\* body is; any other token is refused as an unknown session
TouchOutcome(c) ==
    IF Live(conns[c].token)
    THEN /\ conns[c].token \in DOMAIN sessions'
         /\ sessions'[conns[c].token].lastSeen = clock
         /\ conns[c].wellFormed => conns'[c].pc = "handling"
         /\ ~conns[c].wellFormed => conns'[c].reply = "malformed"
    ELSE /\ conns'[c].pc = "replied"
         /\ conns'[c].reply = "unknown session"

\* C19: a session that has not been used for longer than the idle timeout is
\* unusable: a request that presents its token, or a token never issued, is
\* rejected as an unknown session, which is not the rejection of a malformed
\* request; each use before the expiry sets lastSeen to the time of the use,
\* so that the idle period starts again.
C19_SessionExpiry ==
    [][\A c \in Connections : TouchStep(c) => TouchOutcome(c)]_vars

\* the token of an expired session was rejected as an unknown session while
\* a session as old, used in between, is still usable
C19_Witness ==
    /\ \E c \in Connections :
         /\ conns[c].reply = "unknown session"
         /\ conns[c].token \in 1..issued
    /\ \E token \in DOMAIN sessions :
         /\ Live(token)
         /\ sessions[token].lastSeen > sessions[token].createdAt
         /\ clock - sessions[token].createdAt > httpConfig.sessionTimeout

\* the table holds no more sessions than the maximum
WithinCapacity ==
    Cardinality(DOMAIN sessions) <= httpConfig.maxConnections

\* at the maximum a creation is refused and leaves the table alone, and a
\* request on a live session is neither refused nor unknown
AtCapacity ==
    \A c \in Connections :
        Cardinality(DOMAIN sessions) >= httpConfig.maxConnections =>
            /\ CreateStep(c) => conns'[c].reply = "refused" /\ sessions' = sessions
            /\ (TouchStep(c) /\ Live(conns[c].token)) =>
                   conns'[c].reply \notin {"refused", "unknown session"}

\* C20: under any interleaving of the requests of the connections the number
\* of live sessions is at most the configured maximum; once the maximum is
\* reached a further creation of a session is refused, while requests on the
\* existing sessions are served.
C20_SessionCapacity ==
    []WithinCapacity /\ [][AtCapacity]_vars

\* the table is full, one connection was refused a session and the other
\* was served on a session of the table
C20_Witness ==
    /\ httpConfig.started
    /\ Cardinality(DOMAIN sessions) = httpConfig.maxConnections
    /\ \E a, b \in Connections :
         /\ conns[a].reply = "refused"
         /\ conns[b].reply = "served"
         /\ conns[b].token \in DOMAIN sessions

\* a headers section in the old format was decoded, all its values strings
LegacyDecoded ==
    /\ configCall.op = "HeadersConfig.Unmarshal"
    /\ \A name \in DOMAIN configCall.entries : configCall.entries[name].t = "string"

\* no entry of the section has an empty name or an empty value
EntriesNonEmpty ==
    \A name \in DOMAIN configCall.entries :
        name # <<>> /\ configCall.entries[name].s # <<>>

\* the list decoded from the old format is one literal directive per entry,
\* with the name and the value of the entry
ConvertedToLiterals ==
    /\ Len(configCall.legacy.h) = Cardinality(DOMAIN configCall.entries)
    /\ {configCall.legacy.h[i] : i \in 1..Len(configCall.legacy.h)} =
           {Directive(name, configCall.entries[name].s, <<>>) :
                name \in DOMAIN configCall.entries}

\* C21 as stated: a headers section in the old flat-map form is accepted and
\* converted at load time into one literal directive per entry, and resolves
\* to the same header map as the section in the new form with the same
\* literal directives.
C21_LegacyAccepted ==
    LegacyDecoded =>
        /\ configCall.legacy.err = NoError
        /\ ConvertedToLiterals
        /\ configCall.legacyResolved = configCall.structuredResolved

\* C21 amended: a section in the old form whose names and values are all
\* non-empty is accepted, converted into one literal directive per entry and
\* resolves to the header map of its entries, as the section in the new form
\* does; a section with an empty name or value is rejected in both forms.
C21_LegacyEquivalent ==
    LegacyDecoded =>
        IF EntriesNonEmpty
        THEN /\ configCall.legacy.err = NoError
             /\ configCall.structured.err = NoError
             /\ ConvertedToLiterals
             /\ configCall.legacyResolved =
                    [name \in DOMAIN configCall.entries |-> configCall.entries[name].s]
             /\ configCall.legacyResolved = configCall.structuredResolved
        ELSE /\ configCall.legacy.err # NoError
             /\ configCall.structured.err # NoError

\* a YAML section in the old form with two entries, one of them with a value
\* that reads like an expression, was accepted and resolves to its entries
C21_Witness ==
    /\ LegacyDecoded
    /\ configCall.format = "yaml"
    /\ DOMAIN configCall.entries = {NameXClient, NameUserAgent}
    /\ configCall.entries[NameXClient] = JStr(ExprClientId)
    /\ configCall.legacy.err = NoError
    /\ configCall.legacyResolved[NameXClient] = ExprClientId
    /\ configCall.legacyResolved = configCall.structuredResolved

(***************************************************************************)
(* The classification of handler errors: categorizeToolError applied to    *)
(* an error value, which is nil or carries a text (possibly empty).        *)
(***************************************************************************)

\* error texts and, for each, the rule of categorizeToolError its words are
\* written for (fallback: no rule), in the spelling a server may produce
ErrorFragments ==
    <<
      [rule |-> "timeout",
       text |-> <<"R", "e", "q", "u", "e", "s", "t", " ", "T", "i", "m", "e", "o", "u", "t">>],
      [rule |-> "timeout",
       text |-> <<"c", "o", "n", "t", "e", "x", "t", " ", "d", "e", "a", "d", "l", "i", "n", "e", " ", "e", "x", "c", "e", "e", "d", "e", "d">>],
      [rule |-> "network",
       text |-> <<"d", "i", "a", "l", " ", "t", "c", "p", ":", " ", "c", "o", "n", "n", "e", "c", "t", "i", "o", "n", " ", "r", "e", "f", "u", "s", "e", "d">>],
      [rule |-> "network",
       text |-> <<"N", "o", " ", "S", "u", "c", "h", " ", "H", "o", "s", "t">>],
      [rule |-> "authentication",
       text |-> <<"4", "0", "1", " ", "U", "n", "a", "u", "t", "h", "o", "r", "i", "z", "e", "d">>],
      [rule |-> "authentication",
       text |-> <<"a", "c", "c", "e", "s", "s", " ", "d", "e", "n", "i", "e", "d">>],
      [rule |-> "parameter",
       text |-> <<"p", "a", "r", "a", "m", "e", "t", "e", "r", " ", "i", "d", " ", "i", "s", " ", "r", "e", "q", "u", "i", "r", "e", "d", " ", "b", "u", "t", " ", "n", "o", "t", " ", "p", "r", "o", "v", "i", "d", "e", "d">>],
      [rule |-> "parameter",
       text |-> <<"I", "n", "v", "a", "l", "i", "d", " ", "F", "o", "r", "m", "a", "t">>],
      [rule |-> "serialization",
       text |-> <<"j", "s", "o", "n", ":", " ", "u", "n", "s", "u", "p", "p", "o", "r", "t", "e", "d", " ", "t", "y", "p", "e">>],
      [rule |-> "serialization",
       text |-> <<"f", "a", "i", "l", "e", "d", " ", "t", "o", " ", "M", "a", "r", "s", "h", "a", "l", " ", "b", "o", "d", "y">>],
      [rule |-> "status400",
       text |-> <<"A", "P", "I", " ", "r", "e", "q", "u", "e", "s", "t", " ", "f", "a", "i", "l", "e", "d", " ", "w", "i", "t", "h", " ", "s", "t", "a", "t", "u", "s", " ", "4", "0", "0">>],
      [rule |-> "status400",
       text |-> <<"B", "a", "d", " ", "R", "e", "q", "u", "e", "s", "t">>],
      [rule |-> "status401",
       text |-> <<"A", "P", "I", " ", "r", "e", "q", "u", "e", "s", "t", " ", "f", "a", "i", "l", "e", "d", " ", "w", "i", "t", "h", " ", "s", "t", "a", "t", "u", "s", " ", "4", "0", "1">>],
      [rule |-> "status403",
       text |-> <<"A", "P", "I", " ", "r", "e", "q", "u", "e", "s", "t", " ", "f", "a", "i", "l", "e", "d", " ", "w", "i", "t", "h", " ", "s", "t", "a", "t", "u", "s", " ", "4", "0", "3">>],
      [rule |-> "status404",
       text |-> <<"A", "P", "I", " ", "r", "e", "q", "u", "e", "s", "t", " ", "f", "a", "i", "l", "e", "d", " ", "w", "i", "t", "h", " ", "s", "t", "a", "t", "u", "s", " ", "4", "0", "4">>],
      [rule |-> "status422",
       text |-> <<"A", "P", "I", " ", "r", "e", "q", "u", "e", "s", "t", " ", "f", "a", "i", "l", "e", "d", " ", "w", "i", "t", "h", " ", "s", "t", "a", "t", "u", "s", " ", "4", "2", "2">>],
      [rule |-> "status429",
       text |-> <<"A", "P", "I", " ", "r", "e", "q", "u", "e", "s", "t", " ", "f", "a", "i", "l", "e", "d", " ", "w", "i", "t", "h", " ", "S", "t", "a", "t", "u", "s", " ", "4", "2", "9">>],
      [rule |-> "status5xx",
       text |-> <<"A", "P", "I", " ", "r", "e", "q", "u", "e", "s", "t", " ", "f", "a", "i", "l", "e", "d", " ", "w", "i", "t", "h", " ", "s", "t", "a", "t", "u", "s", " ", "5", "0", "3">>],
      [rule |-> "fallback",
       text |-> <<"f", "i", "e", "l", "d", " ", "i", "s", " ", "r", "e", "q", "u", "i", "r", "e", "d">>],
      [rule |-> "fallback",
       text |-> <<"b", "o", "o", "m">>],
      [rule |-> "fallback",
       text |-> <<>>]>>

\* an error value: nil, or an error whose Error() is text; rules are the
\* rules the fragments of the text were written for
ErrorValue(isNil, text, rules) ==
    [isNil |-> isNil, text |-> text, rules |-> rules]

\* nil, every fragment as an error, and every wrapping "outer: inner" of two
ToolErrors ==
    {ErrorValue(TRUE, <<>>, {})}
    \cup {ErrorValue(FALSE, ErrorFragments[i].text, {ErrorFragments[i].rule}) :
            i \in DOMAIN ErrorFragments}
    \cup {ErrorValue(FALSE, ErrorFragments[i].text \o <<":", " ">> \o ErrorFragments[j].text,
                     {ErrorFragments[i].rule, ErrorFragments[j].rule}) :
            i, j \in DOMAIN ErrorFragments}

\* categorizeToolError(e) for an error value
categorized(e) ==
    IF e.isNil THEN categorizeToolError(NoError)
    ELSE IF e.text = <<>> THEN categorizeLower(ToLower(e.text))
    ELSE categorizeToolError(e.text)

\* code, message := categorizeToolError(err)
CallCategorizeToolError ==
    /\ configCall = NoConfigCall
    /\ \E e \in ToolErrors :
         configCall' = [op |-> "categorizeToolError", err |-> e,
                        code |-> categorized(e).code, message |-> categorized(e).message]
    /\ UNCHANGED configFrame

\* the call returns
ReturnCategorizeToolError ==
    /\ configCall # NoConfigCall
    /\ configCall.op = "categorizeToolError"
    /\ configCall' = NoConfigCall
    /\ UNCHANGED configFrame

CategorizeNext ==
    \/ CallCategorizeToolError
    \/ ReturnCategorizeToolError

CategorizeSpec ==
    Init /\ [][CategorizeNext]_vars

\* the order in which the rules are tried
RuleOrder ==
    <<"timeout", "network", "authentication", "parameter", "serialization", "status400",
      "status401", "status403", "status404", "status422", "status429", "status5xx",
      "fallback">>

\* the code and the label of each rule
RuleCategory ==
    [timeout |-> [code |-> -4002, message |-> "Tool execution timed out"],
     network |-> [code |-> -4001, message |-> "Network error during tool execution"],
     authentication |-> [code |-> -4003,
                         message |-> "Authentication failed during tool execution"],
     parameter |-> [code |-> -4006,
                    message |-> "Invalid or missing parameters for tool execution"],
     serialization |-> [code |-> -4005,
                        message |-> "Data serialization error during tool execution"],
     status400 |-> [code |-> -4004, message |-> "Invalid request parameters"],
     status401 |-> [code |-> -4003, message |-> "Authentication required"],
     status403 |-> [code |-> -4003, message |-> "Access forbidden"],
     status404 |-> [code |-> -4004, message |-> "Resource not found"],
     status422 |-> [code |-> -4004, message |-> "Request validation failed"],
     status429 |-> [code |-> -4004, message |-> "Rate limit exceeded"],
     status5xx |-> [code |-> -4000, message |-> "Server error during tool execution"],
     fallback |-> [code |-> -4000, message |-> "Tool execution failed"]]

\* the first rule of RuleOrder among rules
FirstRule(rules) ==
    RuleOrder[CHOOSE i \in DOMAIN RuleOrder :
                 /\ RuleOrder[i] \in rules
                 /\ \A j \in 1..(i - 1) : RuleOrder[j] \notin rules]

Categorized ==
    configCall # NoConfigCall /\ configCall.op = "categorizeToolError"

\* C22: categorizeToolError maps nil to (0, ""), and every non-nil error to
\* one code in -4006..-4000 with the label of the first rule, in the order
\* timeout, network, authentication, parameters, serialization, HTTP status
\* text, fallback, that the error text matches whatever its letter case.
C22_FirstMatchingRule ==
    Categorized
    => IF configCall.err.isNil
         THEN configCall.code = 0 /\ configCall.message = ""
       ELSE /\ configCall.code \in -4006..-4000
            /\ configCall.code = RuleCategory[FirstRule(configCall.err.rules)].code
            /\ configCall.message = RuleCategory[FirstRule(configCall.err.rules)].message

\* "Request Timeout: 401 Unauthorized" is a timeout, not an authentication
\* failure
C22_Witness ==
    /\ Categorized
    /\ ~configCall.err.isNil
    /\ configCall.err.rules = {"timeout", "authentication"}
    /\ Contains(configCall.err.text, <<"T", "i", "m", "e", "o", "u", "t">>)
    /\ Contains(configCall.err.text, <<"U", "n", "a", "u", "t", "h", "o", "r", "i", "z", "e", "d">>)
    /\ configCall.code = ErrorCodeToolTimeoutError
    /\ configCall.message = "Tool execution timed out"

(***************************************************************************)
(* Body expressions.                                                       *)
(***************************************************************************)

\* the call evaluates request.body.<path> on a request that has a body
IsBodyLookup ==
    /\ IsEvaluateValueFrom
    /\ HasPrefix(call.expression, TextRequestDot \o TextBodyDot)
    /\ requestContext.body # JNull

\* what following all of <path> inside the body finds
BodyPathValue ==
    JsonpathGet(<<"$", ".">> \o SliceFrom(call.expression, Len(TextRequestDot \o TextBodyDot)),
                requestContext.body)

\* C23 (as stated): a body expression request.body.<path> resolves to the
\* value found by following the entire path inside the structured body,
\* also when the path has an array-index segment followed by further fields
\* (request.body.items[0].name resolves to the name of the first item).
C23_BodyEntirePath ==
    IsBodyLookup /\ BodyPathValue.err = NoError
    => call.out = Ret(resultToString(BodyPathValue.v), NoError)

\* request.body.items[0].name on {"items": [{"name": "first"}, null], ...}:
\* the result is the first item as JSON text, not its name
C23_Witness ==
    /\ IsBodyLookup
    /\ call.expression = ExprBodyItemName
    /\ BodyPathValue = Got(JStr(<<"f", "i", "r", "s", "t">>), NoError)
    /\ call.out = Ret(TextFirstItem, NoError)

\* the part of C23 the code keeps: a path without an index segment followed
\* by a field is followed to its end
C23_BodyFieldPath ==
    IsBodyLookup /\ BodyPathValue.err = NoError /\ ~hasNestedPath(call.expression)
    => call.out = Ret(resultToString(BodyPathValue.v), NoError)

(***************************************************************************)
(* HeaderEvaluator, the evaluator RequestEvaluator replaces.  Its slice    *)
(* expressions are kept with their bounds: a slice whose bounds are out of *)
(* range is a run-time panic, which no caller of the evaluator recovers.   *)
(***************************************************************************)

TextHeadersQuote ==
    <<"h", "e", "a", "d", "e", "r", "s", "[", "'">>

ErrfHeaderPath ==
    <<"f", "a", "i", "l", "e", "d", " ", "t", "o", " ", "e", "v", "a", "l",
      "u", "a", "t", "e", " ", "h", "e", "a", "d", "e", "r", " ", "p", "a",
      "t", "h", ":", " ">>

ErrfJSONPath ==
    <<"f", "a", "i", "l", "e", "d", " ", "t", "o", " ", "e", "v", "a", "l",
      "u", "a", "t", "e", " ", "J", "S", "O", "N", "P", "a", "t", "h", ":",
      " ">>

ExprQuoteOnly ==
    <<"h", "e", "a", "d", "e", "r", "s", "[", "'", "]">>

ExprEmptyKey ==
    <<"h", "e", "a", "d", "e", "r", "s", "[", "'", "'", "]">>

ExprRequestQuoteOnly ==
    <<"r", "e", "q", "u", "e", "s", "t", ".", "h", "e", "a", "d", "e", "r",
      "s", "[", "'", "]">>

\* s[lo:hi] panics: slice bounds out of range
SliceOutOfRange(s, lo, hi) ==
    lo < 0 \/ hi < lo \/ hi > Len(s)

\* the outcome of a call: its (string, error) result, or a panic
Returned(r) ==
    [value |-> r.value, err |-> r.err, panic |-> FALSE]

Panicked ==
    [value |-> <<>>, err |-> NoError, panic |-> TRUE]

\* a converted path, or the panic of the conversion
PathOf(path) ==
    [path |-> path, panic |-> FALSE]

PathPanic ==
    [path |-> <<>>, panic |-> TRUE]

\* the expression after 'request.' was removed (header_evaluator.go:143-145)
WithoutRequestPrefix(expression) ==
    IF Len(expression) > 8 /\ Slice(expression, 0, 8) = TextRequestDot
    THEN SliceFrom(expression, 8)
    ELSE expression

\* HeaderEvaluator.convertExpressionToJSONPath once closeBracket was found
HeaderEvaluator_convertAt(e, closeBracket) ==
    IF closeBracket = -1 THEN PathOf(e)
    ELSE IF SliceOutOfRange(e, 9, closeBracket - 1) THEN PathPanic
    ELSE IF Len(SliceFrom(e, closeBracket + 1)) > 0 /\ At(e, closeBracket + 1) = "."
      THEN PathOf(PathHeaders \o ToLower(Slice(e, 9, closeBracket - 1)) \o PathClose
                  \o <<".">> \o SliceFrom(e, closeBracket + 2))
    ELSE PathOf(PathHeaders \o ToLower(Slice(e, 9, closeBracket - 1)) \o PathClose)

\* HeaderEvaluator.convertExpressionToJSONPath on the expression without
\* its 'request.' prefix
HeaderEvaluator_convertStripped(e) ==
    IF Len(e) > 9 /\ Slice(e, 0, 9) = TextHeadersQuote
    THEN HeaderEvaluator_convertAt(e, IndexByteFrom(e, "]", 9))
    ELSE PathOf(e)

HeaderEvaluator_convertExpressionToJSONPath(expression) ==
    HeaderEvaluator_convertStripped(WithoutRequestPrefix(expression))

\* HeaderEvaluator.extractHeaderPath once closeBracket was found
HeaderEvaluator_headerPathAt(e, closeBracket) ==
    IF closeBracket = -1 THEN PathOf(<<>>)
    ELSE IF SliceOutOfRange(e, 9, closeBracket - 1) THEN PathPanic
    ELSE PathOf(PathHeaders \o Slice(e, 9, closeBracket - 1) \o PathClose)

HeaderEvaluator_extractHeaderPathStripped(e) ==
    IF Len(e) > 9 /\ Slice(e, 0, 9) = TextHeadersQuote
    THEN HeaderEvaluator_headerPathAt(e, IndexByteFrom(e, "]", 9))
    ELSE PathOf(<<>>)

HeaderEvaluator_extractHeaderPath(expression) ==
    HeaderEvaluator_extractHeaderPathStripped(WithoutRequestPrefix(expression))

\* HeaderEvaluator.extractNestedPath once headerStart and closeBracket were
\* found
HeaderEvaluator_nestedPathAt(expression, headerStart, closeBracket) ==
    IF headerStart = -1 THEN <<>>
    ELSE IF closeBracket # -1 /\ closeBracket + 1 < Len(expression)
      THEN SliceFrom(expression, closeBracket + 1)
    ELSE <<>>

HeaderEvaluator_extractNestedPath(expression) ==
    HeaderEvaluator_nestedPathAt(
        expression, Index(expression, TextHeadersQuote),
        IF Index(expression, TextHeadersQuote) = -1 THEN -1
        ELSE IndexByteFrom(expression, "]", Index(expression, TextHeadersQuote) + 9))

HeaderEvaluator_extractFromJSONString(jsonStr, originalExpression) ==
    extractFromParsed(jsonStr, ParseJSON(jsonStr),
                      HeaderEvaluator_extractNestedPath(originalExpression))

\* json.Marshal(headerContext) followed by json.Unmarshal into interface{}
HeaderContextData(headers) ==
    JObj(TextHeaders :> MapToJSON(headers))

\* a string result: the nested value when the string is JSON, else itself
HeaderEvaluator_stringResult(s, expression) ==
    IF isJSONString(s) THEN HeaderEvaluator_extractFromJSONString(s, expression)
    ELSE Ret(s, NoError)

\* HeaderEvaluator.evaluateValueFrom from "Fall back to the original JSONPath
\* evaluation" on, jsonpath.Get(jsonPathExpr, contextData) having returned got
HeaderEvaluator_fallBack(expression, got) ==
    IF got.err # NoError
      THEN IF Contains(got.err, MsgUnknownKey) THEN Ret(<<>>, NoError)
           ELSE Ret(<<>>, ErrfJSONPath \o got.err)
    ELSE IF got.v.t = "string" THEN HeaderEvaluator_stringResult(got.v.s, expression)
    ELSE IF got.v.t = "null" THEN Ret(<<>>, NoError)
    ELSE Ret(Marshal(got.v), NoError)

\* HeaderEvaluator.evaluateValueFrom after jsonpath.Get(headerPath,
\* contextData) returned got
HeaderEvaluator_headerResult(expression, jsonPathExpr, contextData, got) ==
    IF got.err # NoError
      THEN IF Contains(got.err, MsgUnknownKey) THEN Ret(<<>>, NoError)
           ELSE Ret(<<>>, ErrfHeaderPath \o got.err)
    ELSE IF got.v.t = "string" THEN HeaderEvaluator_stringResult(got.v.s, expression)
    ELSE HeaderEvaluator_fallBack(expression, JsonpathGet(jsonPathExpr, contextData))

\* HeaderEvaluator.evaluateValueFrom with the two paths computed
HeaderEvaluator_evaluateWith(expression, contextData, jsonPathExpr, headerPath) ==
    IF jsonPathExpr.panic THEN Panicked
    ELSE IF headerPath.panic THEN Panicked
    ELSE IF headerPath.path # <<>>
      THEN Returned(HeaderEvaluator_headerResult(expression, jsonPathExpr.path, contextData,
                                                 JsonpathGet(headerPath.path, contextData)))
    ELSE Returned(HeaderEvaluator_fallBack(expression,
                                           JsonpathGet(jsonPathExpr.path, contextData)))

\* HeaderEvaluator.evaluateValueFrom(expression, headerContext), headers
\* being headerContext.Headers
HeaderEvaluator_evaluateValueFrom(expression, headers) ==
    HeaderEvaluator_evaluateWith(expression, HeaderContextData(headers),
                                 HeaderEvaluator_convertExpressionToJSONPath(expression),
                                 HeaderEvaluator_extractHeaderPath(expression))

\* the (map[string]string, error) result of HeaderEvaluator.EvaluateHeaders,
\* or its panic
LegacyRet(result, isNil, err, panic) ==
    [result |-> result, isNil |-> isNil, err |-> err, panic |-> panic]

RECURSIVE HeaderEvaluator_EvaluateHeadersFrom(_, _, _, _)

\* the ValueFrom branch of the loop body once evaluateValueFrom returned r
HeaderEvaluator_valueFromStep(headers, lowered, i, result, r) ==
    IF r.panic THEN LegacyRet(EmptyMap, TRUE, NoError, TRUE)
    ELSE IF r.err # NoError
      THEN LegacyRet(EmptyMap, TRUE,
                     ErrfEvaluateHeader \o headers[i].name \o <<":", " ">> \o r.err, FALSE)
    ELSE HeaderEvaluator_EvaluateHeadersFrom(headers, lowered, i + 1,
                                             IF r.value # <<>>
                                             THEN (headers[i].name :> r.value) @@ result
                                             ELSE result)

\* the loop of HeaderEvaluator.EvaluateHeaders from directive i on
HeaderEvaluator_EvaluateHeadersFrom(headers, lowered, i, result) ==
    IF i > Len(headers) THEN LegacyRet(result, FALSE, NoError, FALSE)
    ELSE IF headers[i].value # <<>>
      THEN HeaderEvaluator_EvaluateHeadersFrom(headers, lowered, i + 1,
                                               (headers[i].name :> headers[i].value) @@ result)
    ELSE IF headers[i].valueFrom # <<>>
      THEN HeaderEvaluator_valueFromStep(
               headers, lowered, i, result,
               HeaderEvaluator_evaluateValueFrom(headers[i].valueFrom, lowered))
    ELSE HeaderEvaluator_EvaluateHeadersFrom(headers, lowered, i + 1, result)

\* HeaderEvaluator.EvaluateHeaders(headers, requestHeaders), lowered being
\* the map the first loop builds from requestHeaders: lower-cased names,
\* first values
HeaderEvaluator_EvaluateHeaders(headers, lowered) ==
    HeaderEvaluator_EvaluateHeadersFrom(headers, lowered, 1, EmptyMap)

\* the slices s[lo:hi] RequestEvaluator's converter of a bracket expression
\* takes (convertHeaderExpression, convertQueryExpression,
\* convertFormExpression)
BracketSlices(e, openBracket, closeBracket) ==
    IF openBracket = -1 \/ closeBracket = -1 THEN {}
    ELSE {<<e, openBracket + 1, closeBracket>>, <<e, closeBracket + 1, Len(e)>>}

\* the slices RequestEvaluator.convertExpressionToJSONPath takes on the
\* expression without its 'request.' prefix
StrippedSlices(e) ==
    IF HasPrefix(e, TextHeadersOpen) \/ HasPrefix(e, TextQueryOpen) \/ HasPrefix(e, TextFormOpen)
      THEN BracketSlices(e, Index(e, <<"[">>),
                         IF Index(e, <<"[">>) = -1 THEN -1
                         ELSE IndexByteFrom(e, "]", Index(e, <<"[">>) + 1))
    ELSE IF HasPrefix(e, TextBodyDot) THEN {<<e, 5, Len(e)>>}
    ELSE {}

ConvertSlices(expression) ==
    (IF Len(expression) > 8
     THEN {<<expression, 0, 8>>} \cup (IF Slice(expression, 0, 8) = TextRequestDot
                                       THEN {<<expression, 8, Len(expression)>>} ELSE {})
     ELSE {})
    \cup StrippedSlices(WithoutRequestPrefix(expression))

\* every slice RequestEvaluator.evaluateValueFrom takes of the expression:
\* the conversion and, for a nested expression, extractBasePath and
\* extractNestedPath
EvaluateValueFromSlices(expression) ==
    ConvertSlices(expression)
    \cup (IF hasNestedPath(expression)
          THEN {<<expression, 0, Index(expression, <<"]">>) + 1>>,
                <<expression, Index(expression, <<"]">>) + 1, Len(expression)>>}
               \cup ConvertSlices(Slice(expression, 0, Index(expression, <<"]">>) + 1))
          ELSE {})

\* RequestEvaluator.evaluateValueFrom with its panics
RequestEvaluator_evaluateValueFrom(expression, ctx) ==
    IF \E s \in EvaluateValueFromSlices(expression) : SliceOutOfRange(s[1], s[2], s[3])
    THEN Panicked
    ELSE Returned(evaluateValueFrom(expression, ctx))

\* header expressions in the form both evaluators document:
\* request.headers['key'] with an optional nested path
HeaderExprs ==
    {BracketExpr(TextRequestDot, TextHeaders, "'", k, n) :
        k \in {KeyXData, NameXData, KeyAuthorization, NameAuthorization, KeyMissing},
        n \in {<<>>, NestedApikey, NestedCount, NestedMissing, NestedItemBeyond}}

\* expressions that are not of that form
OddExprs ==
    {<<>>, ExprQuoteOnly, ExprEmptyKey, ExprRequestQuoteOnly, ExprOpenOnly, ExprInvalid,
     ExprUnbalanced}

HeaderDirectivePool ==
    {Directive(NameUserAgent, ValUserAgent, <<>>)}
    \cup {Directive(NameAuthorization, <<>>, e) : e \in HeaderExprs}
    \cup {Directive(NameXClient, <<>>, BracketExpr(TextRequestDot, TextHeaders, "'", k, n)) :
            k \in {KeyXData, NameAuthorization}, n \in {<<>>, NestedApikey}}

HeaderDirectiveLists ==
    {l \in UNION {[1..n -> HeaderDirectivePool] : n \in 1..2} :
        \A a, b \in 1..Len(l) : a # b => l[a].name # l[b].name}

\* both evaluators are asked for the value of one expression
CallBothEvaluateValueFrom ==
    /\ request # NoRequest
    /\ call.op = "none"
    /\ \E e \in HeaderExprs \cup OddExprs :
         call' = [op |-> "both.evaluateValueFrom", expression |-> e, headers |-> <<>>,
                  out |-> RequestEvaluator_evaluateValueFrom(e, requestContext),
                  legacy |-> HeaderEvaluator_evaluateValueFrom(e, requestContext.headers),
                  repeats |-> 0]
    /\ UNCHANGED <<request, requestContext, evaluatorFrame>>

\* both evaluators resolve one directive list
CallBothEvaluateHeaders ==
    /\ request # NoRequest
    /\ call.op = "none"
    /\ \E l \in HeaderDirectiveLists :
         call' = [op |-> "both.EvaluateHeaders", expression |-> <<>>, headers |-> l,
                  out |-> EvaluateHeaders(l, requestContext),
                  legacy |-> HeaderEvaluator_EvaluateHeaders(l, requestContext.headers),
                  repeats |-> 0]
    /\ UNCHANGED <<request, requestContext, evaluatorFrame>>

LegacyNext ==
    \/ ReceiveRequest
    \/ CallBothEvaluateValueFrom
    \/ CallBothEvaluateHeaders
    \/ ReturnCall
    \/ FinishRequest

LegacySpec ==
    Init /\ [][LegacyNext]_vars

IsBothEvaluateHeaders ==
    call.op = "both.EvaluateHeaders"

IsBothEvaluateValueFrom ==
    call.op = "both.evaluateValueFrom"

\* the two results agree: both an error, or equal maps
SameHeaders ==
    \/ call.out.err # NoError /\ call.legacy.err # NoError /\ ~call.legacy.panic
    \/ /\ call.out.err = NoError
       /\ call.legacy.err = NoError
       /\ ~call.legacy.panic
       /\ call.out.result = call.legacy.result

\* the header keys the directives of the list address
AddressedKeys(l) ==
    {k \in {KeyXData, NameXData, KeyAuthorization, NameAuthorization, KeyMissing} :
        \E i \in 1..Len(l), n \in {<<>>, NestedApikey, NestedCount, NestedMissing, NestedItemBeyond} :
            l[i].valueFrom = BracketExpr(TextRequestDot, TextHeaders, "'", k, n)}

\* C24 (as stated): for every directive list that uses only header
\* expressions, in any key casing, and every set of incoming headers,
\* HeaderEvaluator.EvaluateHeaders and RequestEvaluator.EvaluateHeaders
\* both return an error or return equal header maps.
C24_BackwardCompatible ==
    IsBothEvaluateHeaders => SameHeaders

\* Authorization from request.headers['Authorization'] on a request that
\* carries the header: RequestEvaluator forwards it, HeaderEvaluator
\* returns a map without it
C24_Witness ==
    /\ IsBothEvaluateHeaders
    /\ call.headers = <<Directive(NameAuthorization, <<>>,
                                  BracketExpr(TextRequestDot, TextHeaders, "'",
                                              NameAuthorization, <<>>))>>
    /\ KeyAuthorization \in DOMAIN requestContext.headers
    /\ call.out.err = NoError
    /\ call.out.result = (NameAuthorization :> requestContext.headers[KeyAuthorization])
    /\ call.legacy.err = NoError
    /\ call.legacy.result = EmptyMap

\* the part of C24 the code keeps: the evaluators agree on the lists whose
\* keys are written in lower case
C24_LowerCaseKeysAgree ==
    IsBothEvaluateHeaders /\ (\A k \in AddressedKeys(call.headers) : k = ToLower(k))
    => SameHeaders

\* C26 (as stated): for every expression, the empty one and malformed
\* bracket forms such as headers['] , headers[''] and headers[ included,
\* evaluateValueFrom of HeaderEvaluator and of RequestEvaluator returns a
\* (value, error) pair and never aborts with a run-time fault.
C26_NoExpressionCrashes ==
    IsBothEvaluateValueFrom => ~call.out.panic /\ ~call.legacy.panic

\* headers[']: HeaderEvaluator slices expression[9:8] and panics, where
\* RequestEvaluator looks up the empty key and returns "" and no error
C26_Witness ==
    /\ IsBothEvaluateValueFrom
    /\ call.expression = ExprQuoteOnly
    /\ call.legacy.panic
    /\ call.out = Returned(Ret(<<>>, NoError))

\* the part of C26 the code keeps: RequestEvaluator takes no slice out of
\* range, and HeaderEvaluator none but for a bracket closed right after the
\* opening quote
C26_OnlyQuoteOnlyCrashes ==
    IsBothEvaluateValueFrom
    => /\ ~call.out.panic
       /\ call.legacy.panic <=> call.expression \in {ExprQuoteOnly, ExprRequestQuoteOnly}

(***************************************************************************)
(* The retry loop of HandleAPICall.  client.Do returns (the client has a   *)
(* timeout) and time.Sleep returns, so a turn of the loop that can be      *)
(* taken is taken, and a call that has its result returns.                 *)
(***************************************************************************)

HandlerFairSpec ==
    HandlerSpec /\ WF_vars(ClientDo) /\ WF_vars(ReturnAPICall)

\* the attempts so far that failed at transport level
FailedAttempts ==
    {i \in 1..Len(attempts) : attempts[i].done.err # NoError}

\* what the loop has done so far is what the retry policy allows
RetryPolicy ==
    apiCall # NoAPICall
    => /\ Len(attempts) <= apiCall.config.maxRetries + 1
       /\ \A i \in 1..(Len(attempts) - 1) : i \in FailedAttempts
       /\ apiResult = PendingResult /\ outbound # Nil
          => /\ Len(attempts) <= apiCall.config.maxRetries
             /\ FailedAttempts = 1..Len(attempts)
       /\ Len(attempts) > 0 /\ Len(attempts) \notin FailedAttempts
          => /\ apiResult # PendingResult
             /\ attempts[Len(attempts)].done.status >= 400
                => /\ apiResult.err # NoError
                   /\ ~HasPrefix(apiResult.err, ErrfMakeRequest)
       /\ apiResult # PendingResult /\ HasPrefix(apiResult.err, ErrfMakeRequest)
          => /\ Len(attempts) = apiCall.config.maxRetries + 1
             /\ FailedAttempts = 1..Len(attempts)

\* C25: the retry loop of HandleAPICall terminates: the outbound request is
\* attempted at most MaxRetries+1 times, the loop stops at the first attempt
\* that yields a response, a response with status >= 400 becomes an error
\* without another attempt, "failed to make request after N attempts" is
\* returned only when all MaxRetries+1 attempts failed at transport level,
\* and every call returns.
C25_RetryTerminates ==
    /\ []RetryPolicy
    /\ (apiCall # NoAPICall) ~> (apiCall = NoAPICall)

\* with one retry configured: the first attempt is refused, the second is
\* answered 404, and the call has its error with no third attempt possible
C25_Witness ==
    /\ apiCall # NoAPICall
    /\ apiCall.config.maxRetries = 1
    /\ Len(attempts) = 2
    /\ attempts[1].done = DoError(ErrRefused)
    /\ attempts[1].slept = 1
    /\ attempts[2].done.status = 404
    /\ apiResult # PendingResult
    /\ HasPrefix(apiResult.err, ErrfStatus)
    /\ ~ENABLED ClientDo

\* both attempts refused: the error names the two attempts
C25_WitnessExhausted ==
    /\ apiCall # NoAPICall
    /\ apiCall.config.maxRetries = 1
    /\ FailedAttempts = {1, 2}
    /\ apiResult # PendingResult
    /\ HasPrefix(apiResult.err, ErrfMakeRequest \o <<"2">>)

(***************************************************************************)
(* The shape of the responses of HandleRequest.                            *)
(***************************************************************************)

\* a request is being answered
Answering ==
    rpc # NoRpc

\* the handler of the tool was called and returned no error
HandlerSucceeded ==
    Len(invoked) = 1 /\ invoked[1].returned.err = NoError

\* the handler of the tool was called and returned an error
HandlerFailed ==
    Len(invoked) = 1 /\ invoked[1].returned.err # NoError

\* the params of the tools/call being answered do not decode
InvalidCallParams ==
    rpc.method = MethodToolsCall /\ ~UnmarshalCallToolParams(rpc.params).ok

\* the requests the claim expects a result for
ResultExpected ==
    \/ rpc.method \in {MethodInitialize, MethodInitialized, MethodToolsList}
    \/ rpc.method = MethodToolsCall /\ HandlerSucceeded

\* the requests the claim expects an error for
ErrorExpected ==
    \/ InvalidCallParams
    \/ IsUnknownTool
    \/ rpc.method = MethodToolsCall /\ HandlerFailed
    \/ rpc.method \notin {MethodInitialize, MethodInitialized, MethodToolsList, MethodToolsCall}

\* C27: every response of HandleRequest has jsonrpc "2.0" and exactly one
\* of result and error: a result for initialize, notifications/initialized,
\* tools/list and a tools/call whose handler succeeded; an error for
\* undecodable tools/call params, an unknown tool, a failed handler and any
\* other method; no failure is answered with a result.
C27_ResultXorError ==
    Answering
    => /\ response.jsonrpc = "2.0"
       /\ (response.result = Nil) # (response.error = Nil)
       /\ ResultExpected # ErrorExpected
       /\ ResultExpected => response.error = Nil
       /\ ErrorExpected => response.result = Nil

\* a tools/call of getPet whose handler fails is answered with an error and
\* no result
C27_Witness ==
    /\ Answering
    /\ rpc.method = MethodToolsCall
    /\ HandlerFailed
    /\ invoked[1].name = ToolGetPet
    /\ response.jsonrpc = "2.0"
    /\ response.result = Nil
    /\ response.error # Nil

\* a tools/call of getPet whose handler succeeds is answered with a result
C27_WitnessResult ==
    /\ Answering
    /\ rpc.method = MethodToolsCall
    /\ HandlerSucceeded
    /\ response.result # Nil
    /\ response.error = Nil

(***************************************************************************)
(* The tool registry after startup.                                        *)
(***************************************************************************)

\* the server as HandleRequest reads it
Registry ==
    [tools |-> tools, schemas |-> schemas]

\* the names tools/list returns, for some order of the range over the map
ListedNames(order) ==
    {HandleRequest(Registry, [id |-> Nil, method |-> MethodToolsList, params |-> <<>>],
                   order, [result |-> JNull, err |-> NoError]).response.result.tools[i].name :
        i \in 1..Len(order)}

\* tools/call finds a handler for the name: the handler is invoked
FindsHandler(name) ==
    HandleRequest(Registry,
                  [id |-> Nil, method |-> MethodToolsCall,
                   params |-> ParamsText(name, ArgsPet)],
                  <<>>, [result |-> JNull, err |-> NoError]).invoked # <<>>

\* tools/list has one entry for exactly the names tools/call finds a
\* handler for
ListMatchesHandlers ==
    \A order \in Orders(DOMAIN schemas) :
        /\ Len(order) = Cardinality(ListedNames(order))
        /\ \A name \in ToolPool \cup {ToolDeletePet} :
             name \in ListedNames(order) <=> FindsHandler(name)

\* C28: the tool registry is written only during startup: every
\* RegisterTool call completes before the transport starts to dispatch
\* requests and no request-handling step writes the registry, so at any
\* time tools/list has one entry for exactly the names for which tools/call
\* finds a handler.
C28_RegistryWrittenAtStartup ==
    /\ []ListMatchesHandlers
    /\ [][/\ (tools' # tools \/ schemas' # schemas)
             => phase = "startup" /\ phase' = "startup" /\ rpc = NoRpc /\ rpc' = NoRpc
          /\ phase = "serving" => phase' = "serving"]_vars

\* both tools registered, the transport serving, tools/list answered with
\* two entries
C28_Witness ==
    /\ phase = "serving"
    /\ DOMAIN tools = ToolPool
    /\ rpc.method = MethodToolsList
    /\ response.result # Nil
    /\ Len(response.result.tools) = 2
    /\ {response.result.tools[i].name : i \in 1..2} = ToolPool
    /\ FindsHandler(ToolGetPet)
    /\ ~FindsHandler(ToolDeletePet)

(***************************************************************************)
(* The headers of the outbound request.                                    *)
(***************************************************************************)

\* the call in progress has a request to send and its configuration passes
\* OpenAPIConfig.Validate
SendsWithValidConfig ==
    /\ apiCall # NoAPICall
    /\ outbound # Nil
    /\ OpenAPIConfigValidate(apiCall.config) = NoError

\* the headers another run on the inputs of the call in progress may send:
\* one per order of the two ranges over the evaluated maps
PossibleHeaders ==
    {prepareRequest(apiCall.config, apiCall.tool, apiCall.params, apiCall.ctx,
                    authOrder, order).req.header :
        authOrder \in Orders(DOMAIN EvaluateHeaders(apiCall.config.auth.headers,
                                                    apiCall.ctx).result),
        order \in Orders(DOMAIN EvaluateHeaders(apiCall.config.headers, apiCall.ctx).result)}

\* the values a resolved directive group has for the HTTP header name k
GroupValues(evaluated, k) ==
    IF evaluated.err # NoError THEN {}
    ELSE {evaluated.result[n] : n \in {m \in DOMAIN evaluated.result :
                                         CanonicalMIMEHeaderKey(m) = k}}

\* the values a header map has for the HTTP header name k
MapValues(header, k) ==
    {header[n] : n \in {m \in DOMAIN header : m = k}}

\* the values the sources have for the header name k, the source of highest
\* precedence first: general directives, authentication directives,
\* built-in authentication, the request as createRequest made it
SourceValues(k) ==
    <<GroupValues(EvaluateHeaders(apiCall.config.headers, apiCall.ctx), k),
      GroupValues(EvaluateHeaders(apiCall.config.auth.headers, apiCall.ctx), k),
      MapValues(builtinAuthHeader(apiCall.config.auth, EmptyMap), k),
      MapValues(createRequest(apiCall.tool,
                              buildRequestURL(apiCall.config, apiCall.tool,
                                              apiCall.params).value,
                              apiCall.params).req.header, k)>>

\* the value sent under k comes from the first source that has the name
FromFirstSource(k) ==
    \E i \in 1..4 :
        /\ outbound.header[k] \in SourceValues(k)[i]
        /\ \A j \in 1..(i - 1) : SourceValues(k)[j] = {}

\* C29 (as stated): for every configuration that passes validation the
\* header values of the outbound request are determined by configuration,
\* tool arguments and RequestContext: a name that several sources yield,
\* compared without regard to case, carries the value of the source of
\* highest precedence (general over authentication directives over
\* built-in authentication over tool header parameters), and two runs on
\* the same inputs send the same values.
C29_HeadersDetermined ==
    SendsWithValidConfig
    => /\ \A k \in DOMAIN outbound.header : FromFirstSource(k)
       /\ PossibleHeaders = {outbound.header}

\* a general group with X-Trace and x-trace, accepted by validation: this
\* run sends the value of the first, another run on the same inputs that
\* of the second
C29_Witness ==
    /\ SendsWithValidConfig
    /\ apiCall.config.headers = <<Directive(ParamTrace, ValGeneralOne, <<>>),
                                  Directive(ToLower(ParamTrace), ValGeneralTwo, <<>>)>>
    /\ outbound.header[ParamTrace] = ValGeneralOne
    /\ \E h \in PossibleHeaders : h[ParamTrace] = ValGeneralTwo

\* the part of C29 the code keeps: the precedence between the sources, and
\* one possible header map when no group has two names that differ in case
\* only
C29_PrecedenceKept ==
    SendsWithValidConfig
    => /\ \A k \in DOMAIN outbound.header : FromFirstSource(k)
       /\ (\A k \in DOMAIN outbound.header :
              /\ Cardinality({n \in DOMAIN EvaluateHeaders(apiCall.config.headers,
                                                            apiCall.ctx).result :
                                CanonicalMIMEHeaderKey(n) = k}) <= 1
              /\ Cardinality({n \in DOMAIN EvaluateHeaders(apiCall.config.auth.headers,
                                                            apiCall.ctx).result :
                                CanonicalMIMEHeaderKey(n) = k}) <= 1)
          => PossibleHeaders = {outbound.header}

\* general over authentication directive over built-in API key: X-Api-Key
\* carries the general directive's value
C29_WitnessPrecedence ==
    /\ SendsWithValidConfig
    /\ apiCall.config.auth.type = "api_key"
    /\ SourceValues(CanonicalMIMEHeaderKey(NameXApiKey))
         = <<{ValGeneralKey}, {ValToken}, {ValSecret}, {}>>
    /\ outbound.header[CanonicalMIMEHeaderKey(NameXApiKey)] = ValGeneralKey

\* ---------------------------------------------------------------------------
\* Shutdown of the HTTP transport: startHTTPServerWithConfig (cmd/server)
\* ---------------------------------------------------------------------------

\* time.Second, the unit the shutdown deadline is counted in
Second ==
    1

\* the requests the transport serves at the same time
MaxInFlight ==
    2

\* the signals the process is sent while the server runs
MaxSignals ==
    2

\* signal.Notify(c, os.Interrupt, syscall.SIGTERM)
NotifiedSignals ==
    {"SIGINT", "SIGTERM"}

\* what Start returns with: a nil error or an error
StartOutcomes ==
    {"ended", "failed"}

\* ctx and its cancel are created, the channel c of capacity 1 is registered
\* for SIGINT and SIGTERM, and the goroutine that calls Start is spawned;
\* the function then waits in its select
NotifyAndGo ==
    /\ httpConfig.started
    /\ mainPc = "idle"
    /\ mainPc' = "select"
    /\ startGoroutine' = "spawned"
    /\ UNCHANGED <<sigChan, delivered, ctxDone, stopCalls, inFlight, grace>>
    /\ UNCHANGED <<sessionVars, mainFrame>>

\* the goroutine calls httpTransport.Start(), which serves until it returns
TransportStart ==
    /\ mainPc \in {"select", "stop", "stopping"}
    /\ startGoroutine = "spawned"
    /\ startGoroutine' = "serving"
    /\ UNCHANGED <<mainPc, sigChan, delivered, ctxDone, stopCalls, inFlight, grace>>
    /\ UNCHANGED <<sessionVars, mainFrame>>

\* Start returns: with an error the goroutine logs it and calls cancel(),
\* with nil it only ends
StartReturns ==
    /\ mainPc \in {"select", "stop", "stopping"}
    /\ startGoroutine = "serving"
    /\ \E outcome \in StartOutcomes :
         /\ startGoroutine' = outcome
         /\ ctxDone' = (ctxDone \/ outcome = "failed")
    /\ UNCHANGED <<mainPc, sigChan, delivered, stopCalls, inFlight, grace>>
    /\ UNCHANGED <<sessionVars, mainFrame>>

\* the process is sent SIGINT or SIGTERM: the runtime puts it in c without
\* blocking, so a signal that finds the one slot taken is dropped
DeliverSignal ==
    /\ mainPc \in {"select", "stop", "stopping"}
    /\ delivered < MaxSignals
    /\ \E sig \in NotifiedSignals :
         sigChan' = IF Len(sigChan) < 1 THEN Append(sigChan, sig) ELSE sigChan
    /\ delivered' = delivered + 1
    /\ UNCHANGED <<mainPc, ctxDone, startGoroutine, stopCalls, inFlight, grace>>
    /\ UNCHANGED <<sessionVars, mainFrame>>

\* a select that also has a default branch: it goes on with nothing received
SelectShutdownWithDefault ==
    /\ mainPc = "select"
    /\ mainPc' = "stop"
    /\ sigChan' = IF sigChan # <<>> THEN Tail(sigChan) ELSE sigChan
    /\ UNCHANGED <<delivered, ctxDone, startGoroutine, stopCalls, inFlight, grace>>
    /\ UNCHANGED <<sessionVars, mainFrame>>

\* select { case <-c: ... case <-ctx.Done(): ... }: it blocks until one of
\* the two is ready and takes either of the ready ones
SelectShutdown ==
    /\ mainPc = "select"
    /\ \/ /\ sigChan # <<>>
          /\ sigChan' = Tail(sigChan)
       \/ /\ ctxDone
          /\ UNCHANGED sigChan
    /\ mainPc' = "stop"
    /\ UNCHANGED <<delivered, ctxDone, startGoroutine, stopCalls, inFlight, grace>>
    /\ UNCHANGED <<sessionVars, mainFrame>>

\* shutdownCtx is context.WithTimeout(context.Background(), 30*time.Second)
\* and httpTransport.Stop(shutdownCtx) is called
CallStop ==
    /\ mainPc = "stop"
    /\ stopCalls' = Append(stopCalls, [deadline |-> 30 * Second])
    /\ grace' = 0
    /\ mainPc' = "stopping"
    /\ UNCHANGED <<sigChan, delivered, ctxDone, startGoroutine, inFlight>>
    /\ UNCHANGED <<sessionVars, mainFrame>>

\* a request arrives while Start serves and Stop has not been called
RequestArrives ==
    /\ mainPc \in {"select", "stop"}
    /\ startGoroutine = "serving"
    /\ inFlight < MaxInFlight
    /\ inFlight' = inFlight + 1
    /\ UNCHANGED <<mainPc, sigChan, delivered, ctxDone, startGoroutine, stopCalls, grace>>
    /\ UNCHANGED <<sessionVars, mainFrame>>

\* a request in flight gets its response
RequestCompletes ==
    /\ mainPc \in {"select", "stop", "stopping"}
    /\ inFlight > 0
    /\ inFlight' = inFlight - 1
    /\ UNCHANGED <<mainPc, sigChan, delivered, ctxDone, startGoroutine, stopCalls, grace>>
    /\ UNCHANGED <<sessionVars, mainFrame>>

\* a second of the grace period passes while Stop waits for the requests
\* in flight
StopTick ==
    /\ mainPc = "stopping"
    /\ inFlight > 0
    /\ grace < stopCalls[Len(stopCalls)].deadline
    /\ grace' = grace + Second
    /\ UNCHANGED <<mainPc, sigChan, delivered, ctxDone, startGoroutine, stopCalls, inFlight>>
    /\ UNCHANGED <<sessionVars, mainFrame>>

\* Stop returns, when no request is in flight or at the deadline, where
\* the remaining connections are closed; its error is only logged, the
\* deferred shutdownCancel() and cancel() run and the function returns
StopReturns ==
    /\ mainPc = "stopping"
    /\ inFlight = 0 \/ grace >= stopCalls[Len(stopCalls)].deadline
    /\ inFlight' = 0
    /\ ctxDone' = TRUE
    /\ mainPc' = "returned"
    /\ UNCHANGED <<sigChan, delivered, startGoroutine, stopCalls, grace>>
    /\ UNCHANGED <<sessionVars, mainFrame>>

ShutdownNext ==
    \/ StartHTTPServer
    \/ NotifyAndGo
    \/ TransportStart
    \/ StartReturns
    \/ DeliverSignal
    \/ SelectShutdown
    \/ CallStop
    \/ RequestArrives
    \/ RequestCompletes
    \/ StopTick
    \/ StopReturns

ShutdownSpec ==
    Init /\ [][ShutdownNext]_vars

\* the function's own goroutine is scheduled, time passes, and Stop returns
\* once nothing is in flight or its deadline is reached
ShutdownFairSpec ==
    /\ ShutdownSpec
    /\ WF_vars(SelectShutdown)
    /\ WF_vars(CallStop)
    /\ WF_vars(StopTick)
    /\ WF_vars(StopReturns)

\* a signal was received or Start returned an error
ShutdownEvent ==
    delivered > 0 \/ startGoroutine = "failed"

\* Stop was called at most once, each time with 30 seconds, and exactly once
\* when the function has returned
StopOnce ==
    /\ Len(stopCalls) <= 1
    /\ \A i \in 1..Len(stopCalls) : stopCalls[i].deadline = 30
    /\ mainPc = "returned" => Len(stopCalls) = 1

\* a step that calls Stop is taken after one of the two events
StopAfterEvent ==
    stopCalls' # stopCalls => ShutdownEvent

\* C30: after SIGINT/SIGTERM is received or after Start returns an error, Stop
\* is called exactly once with a deadline of 30 seconds and
\* startHTTPServerWithConfig then returns; Stop is never called before one of
\* the two events
C30_ShutdownOnce ==
    /\ []StopOnce
    /\ [][StopAfterEvent]_vars
    /\ ShutdownEvent ~> (mainPc = "returned" /\ Len(stopCalls) = 1)

\* the function returned after a signal, its one Stop called while a request
\* was in flight until the deadline
C30_Witness ==
    /\ mainPc = "returned"
    /\ delivered > 0
    /\ Len(stopCalls) = 1
    /\ grace = 30

\* the function returned after Start failed, with no signal
C30_WitnessStartError ==
    /\ mainPc = "returned"
    /\ delivered = 0
    /\ startGoroutine = "failed"
    /\ Len(stopCalls) = 1
====
